---------------------------- MODULE Spec2Model ----------------------------
(***************************************************************************)
(* Model of the SAR scene selection and acquisition pipeline:              *)
(*   - SARDataPipeline.find_target_scenes, run_pipeline,                   *)
(*     schedule_pipeline                       (src/sar_pipeline.py)       *)
(*   - ASFOfficialDownloader.download_scene_with_progress,                 *)
(*     extract_safe_optimized, verify_safe_comprehensive, authenticate,    *)
(*     main                                     (src/downloader.py)        *)
(* The specifications share the variables: SpecSelect drives the scene     *)
(* selector over bounded search results, SpecAcquire the per-scene         *)
(* acquisition over bounded disk contents, SpecVerify the verification of  *)
(* one product directory, SpecRun one pipeline run, SpecSchedule and       *)
(* SpecScheduleFair the scheduler loop, SpecMeasure the polarization       *)
(* query, SpecMain the download tool, and SpecResume an acquisition        *)
(* stopped with the process and invoked again.                             *)
(***************************************************************************)
EXTENDS Integers, Sequences, FiniteSets, TLC

VARIABLES
    asf_results,    \* find_target_scenes: the search records passed in
    days_back,      \* find_target_scenes: the lookback argument
    current_time,   \* find_target_scenes: datetime.now() read at line 224
    sel,            \* find_target_scenes: outcome and the locals it computed
    raw_dir,        \* downloader: raw_zip/<granule>.zip, per granule
    safe_dir,       \* downloader: safe_extracted/<name>.SAFE, per name
    call,           \* downloader: record of the last acquisition invocation
    product,        \* verify_safe_comprehensive: the directory at safe_path
    verification,   \* verify_safe_comprehensive: how the call ended
    run,            \* run_pipeline: position, locals and the files it wrote
    sched,          \* scheduled_run: position and history of the loop
    cli,            \* downloader main: position, credentials, scenes and outcomes
    resume          \* an aborted acquisition and its reference outcome

selvars == <<asf_results, days_back, current_time, sel>>
acqvars == <<raw_dir, safe_dir, call>>
vervars == <<product, verification>>
runvars == <<run>>
schedvars == <<sched>>
clivars == <<cli>>
resvars == <<resume>>
vars == <<asf_results, days_back, current_time, sel, raw_dir, safe_dir, call,
          product, verification, run, sched, cli, resume>>

---------------------------------------------------------------------------
(* Bounds of the model.                                                    *)

\* Longest list of search records handed to the selector.
MaxLen == 3
\* Clock ticks per day: acquisition times have sub-day resolution.
TicksPerDay == 2
\* Longest list of records a search returns within a pipeline run.
MaxRunLen == 2
\* The scheduler's count of runs stops counting at MaxRuns.
MaxRuns == 3
\* Most metadata files in the directory the download tool reads.
MaxFiles == 2

---------------------------------------------------------------------------
(* Scene selector: src/sar_pipeline.py, find_target_scenes.                *)

GranuleNames == {"A", "B", "C"}

\* Clock values at which the selector may run: 30 days after tick 0, and one
\* tick later.
Now0 == 30 * TicksPerDay
Nows == {Now0, Now0 + 1}

\* Acquisition instants that occur in search results, as clock ticks:
\* 1 day, 6 days, 6.5 days, 8 days and 30 days before Now0.
Times == { Now0 - 1 * TicksPerDay,
           Now0 - 6 * TicksPerDay,
           Now0 - 6 * TicksPerDay - (TicksPerDay \div 2),
           Now0 - 8 * TicksPerDay,
           Now0 - 30 * TicksPerDay }

\* The 'acquisition_date' string of a record, by the shape the parser sees:
\*   "utc"    ISO date-time ending in 'Z' or '+00:00'     (lines 231-233)
\*   "offset" ISO date-time with another UTC offset       (line 235)
\*   "noT"    a string without 'T' ('unknown_date', '')   (line 238)
\*   "badT"   a string with 'T' that is no ISO date-time  (line 239, ValueError)
DateStrs ==
    [kind : {"utc"}, t : Times]
      \cup [kind : {"offset"}, t : {Now0 - 1 * TicksPerDay}]
      \cup [kind : {"noT", "badT"}, t : {0}]

Scenes == [granule_name : GranuleNames, acquisition_date : DateStrs]

DaysBackValues == {1, 7}

\* Sequences of scenes of length 0..MaxLen.
SceneLists == UNION { [1..n -> Scenes] : n \in 0..MaxLen }

\* Lines 227-240: the date a record's string parses to.  ok = FALSE: the
\* record is skipped (no 'T', or fromisoformat raised and was caught).
\* aware = TRUE: fromisoformat returned a timezone-aware datetime.
ParseDate(acq_date_str) ==
    CASE acq_date_str.kind = "utc"    -> [ok |-> TRUE,  aware |-> FALSE, t |-> acq_date_str.t]
      [] acq_date_str.kind = "offset" -> [ok |-> TRUE,  aware |-> TRUE,  t |-> acq_date_str.t]
      [] acq_date_str.kind = "noT"    -> [ok |-> FALSE, aware |-> FALSE, t |-> 0]
      [] acq_date_str.kind = "badT"   -> [ok |-> FALSE, aware |-> FALSE, t |-> 0]

\* Variant of ScenesWithDates: the append is done for every record, parsed or
\* not (the append placed after the if/else instead of inside the if).
RECURSIVE ScenesWithDatesUnfiltered(_)
ScenesWithDatesUnfiltered(results) ==
    IF results = <<>> THEN <<>>
    ELSE <<[scene |-> Head(results), acq_date |-> ParseDate(Head(results).acquisition_date)]>>
            \o ScenesWithDatesUnfiltered(Tail(results))

\* Lines 223-240: the (scene, acq_date) pairs of the records that parsed,
\* in input order.
RECURSIVE ScenesWithDates(_)
ScenesWithDates(results) ==
    IF results = <<>> THEN <<>>
    ELSE LET scene == Head(results)
             d == ParseDate(scene.acquisition_date)
         IN  IF d.ok
             THEN <<[scene |-> scene, acq_date |-> d]>> \o ScenesWithDates(Tail(results))
             ELSE ScenesWithDates(Tail(results))

\* list.sort(key, reverse=True) is stable: x goes after every element whose
\* date is greater than or equal to its own.
RECURSIVE InsertNewestFirst(_, _)
InsertNewestFirst(x, s) ==
    IF s = <<>> THEN <<x>>
    ELSE IF Head(s).acq_date.t >= x.acq_date.t
         THEN <<Head(s)>> \o InsertNewestFirst(x, Tail(s))
         ELSE <<x>> \o s

\* Line 247: scenes_with_dates.sort(key=lambda x: x[1], reverse=True).
RECURSIVE SortNewestFirst(_)
SortNewestFirst(s) ==
    IF s = <<>> THEN <<>>
    ELSE InsertNewestFirst(s[Len(s)], SortNewestFirst(SubSeq(s, 1, Len(s) - 1)))

\* timedelta.days: the difference floored to whole days (negative for the past:
\* -1 tick is -1 day plus a positive remainder).
TimedeltaDays(ticks) == ticks \div TicksPerDay

Abs(n) == IF n < 0 THEN -n ELSE n

\* Variant of TargetDate: the lookback is not subtracted.
TargetDateNoLookback(now, n_days_back) == now

\* Line 254: target_date = current_time - timedelta(days=days_back).
TargetDate(now, n_days_back) == now - n_days_back * TicksPerDay

\* Variant of DaysDifference: the abs() is missing.
DaysDifferenceSigned(x, target_date) == TimedeltaDays(x.acq_date.t - target_date)

\* Line 258: the key of min(): abs((x[1] - target_date).days).
DaysDifference(x, target_date) == Abs(TimedeltaDays(x.acq_date.t - target_date))

\* Variant of MinIndex: the last element whose key is minimal.
MinIndexLast(s, target_date) ==
    CHOOSE i \in 1..Len(s) :
        /\ \A j \in 1..Len(s) : DaysDifference(s[i], target_date) <= DaysDifference(s[j], target_date)
        /\ \A j \in (i + 1)..Len(s) : DaysDifference(s[j], target_date) > DaysDifference(s[i], target_date)

\* Line 258: min(scenes_with_dates, key=...) returns the first element, in the
\* order of the list it iterates, whose key is minimal.
MinIndex(s, target_date) ==
    CHOOSE i \in 1..Len(s) :
        /\ \A j \in 1..Len(s) : DaysDifference(s[i], target_date) <= DaysDifference(s[j], target_date)
        /\ \A j \in 1..(i - 1) : DaysDifference(s[j], target_date) > DaysDifference(s[i], target_date)

\* Variant of SelectedScenes: the two picks are compared as whole records.
SelectedScenesByRecord(most_recent, closest_scene) ==
    IF closest_scene.scene /= most_recent.scene
    THEN <<most_recent.scene, closest_scene.scene>>
    ELSE <<most_recent.scene>>

\* Variant of SelectedScenes: the closest pick is always appended.
SelectedScenesNoDedup(most_recent, closest_scene) ==
    <<most_recent.scene, closest_scene.scene>>

\* Lines 263-266: the most recent scene, then the closest one unless it has
\* the same granule_name.
SelectedScenes(most_recent, closest_scene) ==
    IF closest_scene.scene.granule_name /= most_recent.scene.granule_name
    THEN <<most_recent.scene, closest_scene.scene>>
    ELSE <<most_recent.scene>>

NoScene == [granule_name |-> "", acquisition_date |-> [kind |-> "none", t |-> 0]]

SelEmpty == [outcome |-> "returned", most_recent |-> NoScene,
             closest_scene |-> NoScene, selected_scenes |-> <<>>]
SelRaised == [outcome |-> "raised", most_recent |-> NoScene,
              closest_scene |-> NoScene, selected_scenes |-> <<>>]
SelPending == [outcome |-> "pending", most_recent |-> NoScene,
               closest_scene |-> NoScene, selected_scenes |-> <<>>]

\* A timezone-aware date among the parsed ones: comparing it with a naive date
\* in sort (line 247), or subtracting the naive target_date from it
\* (line 258), raises TypeError outside every try block.
HasAware(s) == \E i \in 1..Len(s) : s[i].acq_date.aware

\* Lines 216-271.
find_target_scenes(results, n_days_back, now) ==
    IF results = <<>> THEN SelEmpty
    ELSE LET scenes_with_dates == ScenesWithDates(results)
         IN  IF scenes_with_dates = <<>> THEN SelEmpty
             ELSE IF HasAware(scenes_with_dates) THEN SelRaised
             ELSE LET sorted == SortNewestFirst(scenes_with_dates)
                      most_recent == sorted[1]
                      target_date == TargetDate(now, n_days_back)
                      closest_scene == sorted[MinIndex(sorted, target_date)]
                  IN  [outcome |-> "returned",
                       most_recent |-> most_recent.scene,
                       closest_scene |-> closest_scene.scene,
                       selected_scenes |-> SelectedScenes(most_recent, closest_scene)]

---------------------------------------------------------------------------
(* Per-scene acquisition: src/downloader.py, ASFOfficialDownloader.        *)

\* Granule names of the scenes handed to the downloader.  raw_zip/<n>.zip
\* and safe_extracted/<n>.SAFE are the files of name n.
Names == {"g1", "g2"}

NoRoot == "no_root"     \* the archive has no entry ending in '.SAFE/'
None == "None"          \* Python's None, returned for a failure

\* Lines 252-253: required_dirs and required_files.
RequiredDirs == {"annotation", "measurement", "preview"}

\* The *.tiff files that occur in a measurement directory, by name.
TiffNames == {"s1a-iw-slc-vv-001.tiff", "s1a-iw-slc-vh-002.tiff", "s1a-iw-slc-003.tiff",
              "s1a-ew-grd-hh-004.tiff", "s1a-ew-grd-hv-005.tiff"}

\* The polarization substrings of a lower-cased file name ('vv' in filename).
SubstringsOf(name) ==
    CASE name = "s1a-iw-slc-vv-001.tiff" -> {"vv"}
      [] name = "s1a-iw-slc-vh-002.tiff" -> {"vh"}
      [] name = "s1a-ew-grd-hh-004.tiff" -> {"hh"}
      [] name = "s1a-ew-grd-hv-005.tiff" -> {"hv"}
      [] name = "s1a-iw-slc-vv-vh-006.tiff" -> {"vv", "vh"}
      [] OTHER -> {}

\* A product directory: the required names it has as subdirectories (dirs),
\* the required names it has as plain files (plain), whether it has
\* manifest.safe, and the *.tiff files of its measurement subdirectory.
CompleteTree == [exists |-> TRUE, dirs |-> RequiredDirs, plain |-> {}, manifest |-> TRUE,
                 tiffs |-> {"s1a-iw-slc-vv-001.tiff", "s1a-iw-slc-vh-002.tiff"}]
NoManifestTree == [exists |-> TRUE, dirs |-> RequiredDirs, plain |-> {}, manifest |-> FALSE,
                   tiffs |-> {"s1a-iw-slc-vv-001.tiff"}]
UntaggedTree == [exists |-> TRUE, dirs |-> RequiredDirs, plain |-> {}, manifest |-> TRUE,
                 tiffs |-> {"s1a-iw-slc-003.tiff"}]
EmptyTree == [exists |-> TRUE, dirs |-> {}, plain |-> {}, manifest |-> FALSE, tiffs |-> {}]
SampleTrees == {CompleteTree, NoManifestTree, UntaggedTree, EmptyTree}

\* safe_extracted/<n>.SAFE does not exist.
NoDir == [exists |-> FALSE, dirs |-> {}, plain |-> {}, manifest |-> FALSE, tiffs |-> {}]

\* A file at raw_zip/<n>.zip: not a readable zip (truncated, an error page),
\* or a zip with its product root (the name before '.SAFE/'), the tree under
\* that root, and whether one of its file members is damaged.
Unreadable == [exists |-> TRUE, root |-> NoRoot, tree |-> EmptyTree,
               readable |-> FALSE, bad_member |-> FALSE]
RootlessArchive == [exists |-> TRUE, root |-> NoRoot, tree |-> EmptyTree,
                    readable |-> TRUE, bad_member |-> FALSE]
Archives ==
    {Unreadable, RootlessArchive}
      \cup [exists : {TRUE}, root : Names, tree : SampleTrees,
            readable : {TRUE}, bad_member : BOOLEAN]

\* raw_zip/<n>.zip does not exist.
NoFile == [exists |-> FALSE, root |-> NoRoot, tree |-> EmptyTree,
           readable |-> FALSE, bad_member |-> FALSE]

\* Scene metadata handed to the downloader: the record has 'granule_name';
\* has_url tells whether it has the 'url' key.
AcqScenes == [granule_name : Names, has_url : BOOLEAN]

\* What asf.download_urls does (lines 159-163): it saves an archive at
\* raw_zip/<granule>.zip, or raises, or raises leaving a partial file, or
\* returns having saved the file under another name.
Transfers ==
    [kind : {"saved"}, archive : Archives]
      \cup [kind : {"raised", "raised_partial", "saved_elsewhere"}, archive : {Unreadable}]

\* Lines 282-294: the tag a measurement file adds, by the if/elif chain.
PolarizationOf(name) ==
    IF "vv" \in SubstringsOf(name) THEN "VV"
    ELSE IF "vh" \in SubstringsOf(name) THEN "VH"
    ELSE IF "hh" \in SubstringsOf(name) THEN "HH"
    ELSE IF "hv" \in SubstringsOf(name) THEN "HV"
    ELSE "none"

Polarizations(tree) == { PolarizationOf(f) : f \in tree.tiffs } \ {"none"}

\* Variant of HasRequiredFiles: the loop of lines 272-275 is missing.
RequiredFilesUnchecked(tree) == TRUE

\* Lines 253 and 272-275: every required file exists.
HasRequiredFiles(tree) == tree.manifest

\* Lines 246-304, by the way the function ends: "accept" (returns True at
\* line 300), "reject" (a return False of lines 260, 266, 275, 300), "error"
\* (an exception caught at line 302: iterdir() of a plain file at line 269).
VerifyOutcome(tree) ==
    IF "annotation" \notin tree.dirs \cup tree.plain THEN "reject"
    ELSE IF "annotation" \in tree.plain THEN "error"
    ELSE IF "measurement" \notin tree.dirs \cup tree.plain THEN "reject"
    ELSE IF tree.tiffs = {} THEN "reject"
    ELSE IF "preview" \notin tree.dirs \cup tree.plain THEN "reject"
    ELSE IF "preview" \in tree.plain THEN "error"
    ELSE IF ~HasRequiredFiles(tree) THEN "reject"
    ELSE IF Cardinality(Polarizations(tree)) > 0 THEN "accept"
    ELSE "reject"

\* Lines 246-304: the value returned.
verify_safe_comprehensive(tree) == VerifyOutcome(tree) = "accept"

\* Variant of DiskAfterVerify: a product that is not accepted is removed.
DiskAfterVerifyRemovesRejected(tree) ==
    IF VerifyOutcome(tree) = "accept" THEN tree ELSE NoDir

\* Lines 246-304: the product directory after verify_safe_comprehensive; the
\* function only calls exists, glob, iterdir and stat.
DiskAfterVerify(tree) == tree

\* Lines 231-232 on an archive with a damaged member (its first file member,
\* a file outside the required ones): the directory entries before it are
\* extracted, then zf.extract raises.
ExtractedBeforeFailure(tree) ==
    [exists |-> TRUE, dirs |-> tree.dirs, plain |-> {}, manifest |-> FALSE, tiffs |-> {}]

\* Variant of RootlessResult: the destination is cleared before returning.
RootlessResultClearsDestination(safe) ==
    [ret |-> None, safe |-> [n \in DOMAIN safe |-> NoDir], verified |-> FALSE]

\* Lines 212-214: no entry of the archive ends in '.SAFE/'.
RootlessResult(safe) == [ret |-> None, safe |-> safe, verified |-> FALSE]

\* Variant of RemoveExisting: lines 222-224 are missing.
RemoveExistingMissing(safe, root) == safe

\* Lines 222-224: a directory of the product's name is removed.
RemoveExisting(safe, root) == [safe EXCEPT ![root] = NoDir]

\* Lines 227-232: the members are extracted over what is at the destination;
\* zf.extract creates what is missing, overwrites files and keeps the rest.
ExtractMembers(old, tree) ==
    [exists |-> TRUE,
     dirs |-> old.dirs \cup tree.dirs,
     plain |-> (old.plain \cup tree.plain) \ (old.dirs \cup tree.dirs),
     manifest |-> old.manifest \/ tree.manifest,
     tiffs |-> old.tiffs \cup tree.tiffs]

\* Variant of VerifiedResult: a product that fails verification is removed.
VerifiedResultRemovesRejected(root, safe) ==
    IF verify_safe_comprehensive(safe[root])
    THEN [ret |-> root, safe |-> safe, verified |-> TRUE]
    ELSE [ret |-> None, safe |-> [safe EXCEPT ![root] = NoDir], verified |-> TRUE]

\* Lines 234-240: the extracted product is verified and its path returned, or
\* None.
VerifiedResult(root, safe) ==
    [ret |-> IF verify_safe_comprehensive(safe[root]) THEN root ELSE None,
     safe |-> [safe EXCEPT ![root] = DiskAfterVerify(@)],
     verified |-> TRUE]

\* Lines 203-244: extract_safe_optimized(zip_path) on the archive at zip_path
\* with safe_extracted/ as given.  ret is the returned path (a name) or None,
\* safe the directory afterwards, verified whether line 235 was reached.
extract_safe_optimized(archive, safe) ==
    IF ~archive.readable
    THEN \* line 208 raises BadZipFile, caught at line 242
         [ret |-> None, safe |-> safe, verified |-> FALSE]
    ELSE IF archive.root = NoRoot
    THEN RootlessResult(safe)
    ELSE LET cleared == RemoveExisting(safe, archive.root)
         IN  IF archive.bad_member
             THEN \* zf.extract raises at line 232, caught at line 242
                  [ret |-> None,
                   safe |-> [cleared EXCEPT ![archive.root] =
                                ExtractMembers(@, ExtractedBeforeFailure(archive.tree))],
                   verified |-> FALSE]
             ELSE VerifiedResult(archive.root,
                                 [cleared EXCEPT ![archive.root] =
                                     ExtractMembers(@, archive.tree)])

\* The record of one invocation of download_scene_with_progress: transfer is
\* what asf.download_urls did ("none" when it was not called).
CallRecord(scene, outcome, ret, transfer, transfers, extractions, verified, raw0, safe0) ==
    [scene |-> scene, outcome |-> outcome, ret |-> ret, transfer |-> transfer,
     transfers |-> transfers, extractions |-> extractions, verified |-> verified,
     raw_before |-> raw0, safe_before |-> safe0]

\* Variant of AfterExtraction: the archive is deleted once its product has
\* been extracted and verified.
AfterExtractionDeletesArchive(scene, archive, raw, raw0, safe0, transfers) ==
    LET x == extract_safe_optimized(archive, safe0)
    IN  [raw |-> IF x.ret = None THEN raw ELSE [raw EXCEPT ![scene.granule_name] = NoFile],
         safe |-> x.safe,
         call |-> CallRecord(scene, "returned", x.ret,
                             IF transfers = 0 THEN "none" ELSE "saved",
                             transfers, 1, x.verified, raw0, safe0)]

\* Lines 147-151 and 168-193: extraction of the archive at zip_path, after
\* `transfers` network transfers.
AfterExtraction(scene, archive, raw, raw0, safe0, transfers) ==
    LET x == extract_safe_optimized(archive, safe0)
    IN  [raw |-> raw, safe |-> x.safe,
         call |-> CallRecord(scene, "returned", x.ret,
                             IF transfers = 0 THEN "none" ELSE "saved",
                             transfers, 1, x.verified, raw0, safe0)]

\* Variant of TransferFailed: the handler extracts whatever the transfer
\* left at zip_path.
TransferFailedExtractsPartial(scene, kind, raw, raw0, safe0) ==
    IF raw[scene.granule_name].exists
    THEN LET x == extract_safe_optimized(raw[scene.granule_name], safe0)
         IN  [raw |-> raw, safe |-> x.safe,
              call |-> CallRecord(scene, "returned", x.ret, kind, 1, 1, x.verified,
                                  raw0, safe0)]
    ELSE [raw |-> raw, safe |-> safe0,
          call |-> CallRecord(scene, "returned", None, kind, 1, 0, FALSE, raw0, safe0)]

\* Lines 191-201: the transfer raised (the handlers of lines 195-201), or it
\* returned and zip_path does not exist (lines 191-193); None is returned
\* with the disk as the transfer left it.
TransferFailed(scene, kind, raw, raw0, safe0) ==
    [raw |-> raw, safe |-> safe0,
     call |-> CallRecord(scene, "returned", None, kind, 1, 0, FALSE, raw0, safe0)]

\* Variant of SafeAlreadyExists: the check of lines 142-145 is missing.
SafeCheckMissing(scene, safe) == FALSE

\* Lines 142-143: safe_path.exists().
SafeAlreadyExists(scene, safe) == safe[scene.granule_name].exists

\* Variant of ZipAlreadyExists: the check of lines 148-151 is missing.
ZipCheckMissing(scene, raw) == FALSE

\* Lines 148-149: zip_path.exists().
ZipAlreadyExists(scene, raw) == raw[scene.granule_name].exists

\* Lines 130-201: download_scene_with_progress(scene_metadata) on the disk
\* (raw, safe), with `transfer` what the network does if it is asked.
download_scene_with_progress(scene, transfer, raw, safe) ==
    LET granule_name == scene.granule_name
    IN  IF ~scene.has_url
        THEN \* line 134: KeyError
             [raw |-> raw, safe |-> safe,
              call |-> CallRecord(scene, "raised", None, "none", 0, 0, FALSE, raw, safe)]
        ELSE IF SafeAlreadyExists(scene, safe)
        THEN \* lines 142-145
             [raw |-> raw, safe |-> safe,
              call |-> CallRecord(scene, "returned", granule_name, "none", 0, 0, FALSE,
                                  raw, safe)]
        ELSE IF ZipAlreadyExists(scene, raw)
        THEN \* lines 148-151
             AfterExtraction(scene, raw[granule_name], raw, raw, safe, 0)
        ELSE \* lines 153-201
             CASE transfer.kind = "saved" ->
                    AfterExtraction(scene, transfer.archive,
                                    [raw EXCEPT ![granule_name] = transfer.archive], raw, safe, 1)
               [] transfer.kind = "raised" ->
                    TransferFailed(scene, "raised", raw, raw, safe)
               [] transfer.kind = "raised_partial" ->
                    TransferFailed(scene, "raised_partial",
                                   [raw EXCEPT ![granule_name] = Unreadable], raw, safe)
               [] transfer.kind = "saved_elsewhere" ->
                    TransferFailed(scene, "saved_elsewhere", raw, raw, safe)

\* No invocation yet.
NoCall ==
    [scene |-> [granule_name |-> "", has_url |-> FALSE], outcome |-> "none", ret |-> None,
     transfer |-> "none", transfers |-> 0, extractions |-> 0, verified |-> FALSE,
     raw_before |-> <<>>, safe_before |-> <<>>]

---------------------------------------------------------------------------
(* Placeholders of the acquisition state while the selector runs.          *)

AcqIdle ==
    /\ raw_dir = <<>>
    /\ safe_dir = <<>>
    /\ call = <<>>

(* Placeholders of the verification, run and scheduler state.              *)
VerifyIdle ==
    /\ product = <<>>
    /\ verification = <<>>

RunIdle == run = <<>>

SchedIdle == sched = <<>>

CliIdle == cli = <<>>

ResumeIdle == resume = <<>>

---------------------------------------------------------------------------
(* Specification of the scene selector.                                    *)

InitSelect ==
    /\ asf_results \in SceneLists
    /\ days_back \in DaysBackValues
    /\ current_time = 0
    /\ sel = SelPending
    /\ AcqIdle
    /\ VerifyIdle
    /\ RunIdle
    /\ SchedIdle
    /\ CliIdle
    /\ ResumeIdle

\* One call of find_target_scenes; the clock is read inside the call.
Select ==
    /\ sel.outcome = "pending"
    /\ \E now \in Nows :
          /\ current_time' = now
          /\ sel' = find_target_scenes(asf_results, days_back, now)
    /\ UNCHANGED <<asf_results, days_back, acqvars, vervars, runvars, schedvars, clivars, resvars>>

NextSelect == Select

SpecSelect == InitSelect /\ [][NextSelect]_vars

---------------------------------------------------------------------------
(* Specification of the per-scene acquisition.                             *)

\* The selector's variables while the downloader runs.
SelectIdle ==
    /\ asf_results = <<>>
    /\ days_back = 0
    /\ current_time = 0
    /\ sel = SelPending

\* Any disk contents: earlier runs may have left archives and product
\* directories, complete or not.
InitAcquire ==
    /\ raw_dir \in [Names -> Archives \cup {NoFile}]
    /\ safe_dir \in [Names -> SampleTrees \cup {NoDir}]
    /\ call = NoCall
    /\ SelectIdle
    /\ VerifyIdle
    /\ RunIdle
    /\ SchedIdle
    /\ CliIdle
    /\ ResumeIdle

\* The network behaviours to consider for one invocation: all of them when
\* neither the product directory nor the archive of the scene is on disk, and
\* otherwise one, since lines 141-151 return before the network is asked.
TransfersToConsider(scene) ==
    IF ~safe_dir[scene.granule_name].exists /\ ~raw_dir[scene.granule_name].exists
    THEN Transfers
    ELSE {[kind |-> "saved",
           archive |-> [exists |-> TRUE, root |-> scene.granule_name, tree |-> CompleteTree,
                        readable |-> TRUE, bad_member |-> FALSE]]}

\* One invocation of download_scene_with_progress.
Acquire ==
    /\ \E scene \in AcqScenes :
        \E transfer \in TransfersToConsider(scene) :
          LET r == download_scene_with_progress(scene, transfer, raw_dir, safe_dir)
          IN  /\ raw_dir' = r.raw
              /\ safe_dir' = r.safe
              /\ call' = r.call
    /\ UNCHANGED <<selvars, vervars, runvars, schedvars, clivars, resvars>>

NextAcquire == Acquire

SpecAcquire == InitAcquire /\ [][NextAcquire]_vars

---------------------------------------------------------------------------
(* Specification of the verification of one product directory.             *)

\* Every product directory over the required names and the sample file
\* names: a required name is absent, a subdirectory or a plain file, and
\* only a measurement subdirectory holds *.tiff files.
AllTrees ==
    { t \in [exists : {TRUE}, dirs : SUBSET RequiredDirs, plain : SUBSET RequiredDirs,
             manifest : BOOLEAN, tiffs : SUBSET TiffNames] :
        /\ t.dirs \cap t.plain = {}
        /\ t.tiffs /= {} => "measurement" \in t.dirs }

VerifyPending == [outcome |-> "pending", ret |-> FALSE, before |-> NoDir]

InitVerify ==
    /\ product \in AllTrees \cup {NoDir}
    /\ verification = VerifyPending
    /\ SelectIdle
    /\ AcqIdle
    /\ RunIdle
    /\ SchedIdle
    /\ CliIdle
    /\ ResumeIdle

\* One call of verify_safe_comprehensive(safe_path).
Verify ==
    /\ verification.outcome = "pending"
    /\ verification' = [outcome |-> VerifyOutcome(product),
                        ret |-> verify_safe_comprehensive(product),
                        before |-> product]
    /\ product' = DiskAfterVerify(product)
    /\ UNCHANGED <<selvars, acqvars, runvars, schedvars, clivars, resvars>>

NextVerify == Verify

SpecVerify == InitVerify /\ [][NextVerify]_vars

---------------------------------------------------------------------------
(* One pipeline run: src/sar_pipeline.py, run_pipeline and the functions   *)
(* it awaits.  The run's asf_results, days_back, clock and selection are   *)
(* the variables of the selector.                                          *)

\* The results asf.search returns (line 154), by the properties the
\* adapter reads: sceneName, startTime, and whether 'bytes' is a number
\* (line 190 divides it).  One result has a 'bytes' that is no number.
RawResults ==
    [sceneName : {"A", "B"}, startTime : DateStrs, bytes_numeric : {TRUE}]
      \cup {[sceneName |-> "A",
              startTime |-> [kind |-> "utc", t |-> Now0 - 1 * TicksPerDay],
              bytes_numeric |-> FALSE]}

\* The lists asf.search returns: every list of up to MaxRunLen results, and
\* the lists of three scenes with three names, acquired 1, 6 and 8 days
\* before Now0 in any order (more scenes found than the two a run selects).
RawLists ==
    LET t3 == {Now0 - 1 * TicksPerDay, Now0 - 6 * TicksPerDay, Now0 - 8 * TicksPerDay}
        result(name, t) == [sceneName |-> name, startTime |-> [kind |-> "utc", t |-> t],
                            bytes_numeric |-> TRUE]
    IN  UNION { [1..n -> RawResults] : n \in 0..MaxRunLen }
          \cup { <<result("A", p[1]), result("B", p[2]), result("C", p[3])>> :
                   p \in { q \in t3 \X t3 \X t3 :
                             q[1] /= q[2] /\ q[1] /= q[3] /\ q[2] /= q[3] } }

\* What asf.search does for one run (lines 154-161): it returns results, or
\* raises.
Searches ==
    [kind : {"returned"}, results : RawLists]
      \cup {[kind |-> "raised", results |-> <<>>]}

\* Lines 199-210: the record appended for a result that raised in lines
\* 167-198; its 'acquisition_date' is 'unknown'.
ParsingError ==
    [granule_name |-> "parsing_error", acquisition_date |-> [kind |-> "noT", t |-> 0],
     error |-> TRUE]

\* Lines 166-210: the record appended for one result.
Normalize(result) ==
    IF result.bytes_numeric
    THEN [granule_name |-> result.sceneName, acquisition_date |-> result.startTime]
    ELSE ParsingError

\* Variant of NormalizeAll: a result that cannot be normalized ends the
\* loop, and the handler of line 212 returns the empty list.
NormalizeAllAborting(results) ==
    IF \E i \in 1..Len(results) : ~results[i].bytes_numeric
    THEN <<>>
    ELSE [i \in 1..Len(results) |-> Normalize(results[i])]

\* Lines 165-210: data_list, one record per result, in order.
NormalizeAll(results) == [i \in 1..Len(results) |-> Normalize(results[i])]

\* Variant of search_asf_data: a provider error leaves the function.
search_asf_data_propagates(search) ==
    IF search.kind = "raised" THEN [outcome |-> "raised", data_list |-> <<>>]
    ELSE [outcome |-> "returned", data_list |-> NormalizeAll(search.results)]

\* Lines 143-214: the list search_asf_data returns; the handler of lines
\* 212-214 turns a provider error into the empty list.
search_asf_data(search) ==
    IF search.kind = "raised" THEN [outcome |-> "returned", data_list |-> <<>>]
    ELSE [outcome |-> "returned", data_list |-> NormalizeAll(search.results)]

\* Lines 273-324: nothing without a client id, else one request description
\* (it has 'search_ready' and no 'request_ready').
search_sentinel_hub_data(has_client_id) ==
    IF has_client_id THEN <<[search_ready |-> TRUE, request_ready |-> FALSE]>> ELSE <<>>

\* The *.json files of data/asf by granule name: those on disk, and those
\* of them that hold no byte.
MetadataFiles(jsons, empty) == [jsons |-> jsons, empty |-> empty]

\* Line 342: aiofiles.open(<granule>.json, 'w') has returned; mode 'w'
\* creates the file, or truncates the one an earlier run wrote.
MetadataOpened(disk, g) ==
    MetadataFiles(disk.jsons \cup {g}, disk.empty \cup {g})

\* Lines 342-343: the async with block is left after f.write returned; the
\* text, held in the file object's buffer until then, is in the file.
MetadataClosed(disk, g) ==
    MetadataFiles(disk.jsons \cup {g}, disk.empty \ {g})

\* Where the file system refuses (OSError) in one write of a file: in the
\* open (line 342 or 446), in the write (line 343 or 447), in the close
\* that ends the async with block, or nowhere.
RefusalPoints == {"never", "open", "write", "close"}

\* Lines 326-350: download_asf_data(data_item, asf_dir) with the *.zip and
\* *.json files of asf_dir; the OSError of a refusal is caught at line 348.
\* The coroutine is suspended in the open, in the write, and in the close;
\* after a refused write the async with block still closes the file.
download_asf_data(data_item, zips, jsons, empty, refused_at) ==
    LET g == data_item.granule_name
        disk == MetadataFiles(jsons, empty)
    IN  IF g \in zips
        THEN [ret |-> TRUE, disk |-> disk, suspensions |-> 0]
        ELSE IF refused_at = "open"
        THEN [ret |-> FALSE, disk |-> disk, suspensions |-> 1]
        ELSE IF refused_at \in {"write", "close"}
        THEN [ret |-> FALSE, disk |-> MetadataOpened(disk, g), suspensions |-> 3]
        ELSE [ret |-> TRUE, disk |-> MetadataClosed(MetadataOpened(disk, g), g),
              suspensions |-> 3]

\* Lines 352-356: download_sentinel_hub_data returns False for an item
\* without 'request_ready'.
download_sentinel_hub_data(data_item) == data_item.request_ready

\* sum() of a list of booleans.
RECURSIVE SumTrue(_)
SumTrue(flags) ==
    IF flags = <<>> THEN 0
    ELSE (IF Head(flags) THEN 1 ELSE 0) + SumTrue(Tail(flags))

\* Line 441: the granule names of the selected scenes, in order.
GranuleNamesOf(scenes) == [i \in 1..Len(scenes) |-> scenes[i].granule_name]

NoSummary ==
    [written |-> FALSE, target_days_back |-> 0, found |-> 0, selected |-> 0, downloaded |-> 0,
     sh_found |-> 0, sh_processed |-> 0, total_files |-> 0, selected_scenes |-> <<>>]

\* Variant of Summary: 'downloaded' repeats 'found'.
SummaryCountsFound(found, sh_results, target_scenes, asf_downloads, sh_downloads, n_days_back) ==
    [written |-> TRUE,
     target_days_back |-> n_days_back,
     found |-> Len(found),
     selected |-> Len(target_scenes),
     downloaded |-> Len(found),
     sh_found |-> Len(sh_results),
     sh_processed |-> SumTrue(sh_downloads),
     total_files |-> Len(found) + SumTrue(sh_downloads),
     selected_scenes |-> GranuleNamesOf(target_scenes)]

\* Variant of Summary: 'downloaded' counts the downloads attempted.
SummaryCountsAttempts(found, sh_results, target_scenes, asf_downloads, sh_downloads, n_days_back) ==
    [written |-> TRUE,
     target_days_back |-> n_days_back,
     found |-> Len(found),
     selected |-> Len(target_scenes),
     downloaded |-> Len(asf_downloads),
     sh_found |-> Len(sh_results),
     sh_processed |-> SumTrue(sh_downloads),
     total_files |-> SumTrue(asf_downloads) + SumTrue(sh_downloads),
     selected_scenes |-> GranuleNamesOf(target_scenes)]

\* Lines 424-447: the summary, as written to pipeline_summary_<time>.json.
Summary(found, sh_results, target_scenes, asf_downloads, sh_downloads, n_days_back) ==
    [written |-> TRUE,
     target_days_back |-> n_days_back,
     found |-> Len(found),
     selected |-> Len(target_scenes),
     downloaded |-> SumTrue(asf_downloads),
     sh_found |-> Len(sh_results),
     sh_processed |-> SumTrue(sh_downloads),
     total_files |-> SumTrue(asf_downloads) + SumTrue(sh_downloads),
     selected_scenes |-> GranuleNamesOf(target_scenes)]

\* The position after the selection and after each download: the loops of
\* lines 413-421, then the summary.
PcAfter(target_scenes, asf_downloads, sh_results, sh_downloads) ==
    IF Len(asf_downloads) < Len(target_scenes) THEN "download_asf"
    ELSE IF Len(sh_downloads) < Len(sh_results) THEN "download_sh"
    ELSE "summary"

\* No write of a file is under way.
NoIo == [stage |-> "none", refused_at |-> "never", error |-> "none", buffered |-> FALSE,
         before |-> MetadataFiles({}, {})]

\* The state at line 378: the configuration (the client id), the files of
\* earlier runs in data/asf, nothing searched yet.  io follows the write of
\* a file: stage is the await the coroutine is suspended in ("open",
\* "write", "close", or "unwind" for the close after an exception in the
\* block), "return" when download_asf_data is about to return, error the
\* exception on its way out of the block, buffered whether the file object
\* holds the text of f.write.  summary_file is the file of line
\* 445: "none", "empty" or "written".  raised_at is the line whose
\* exception left run_pipeline.
RunStart(has_client_id, zips, jsons) ==
    [pc |-> "search_asf", has_client_id |-> has_client_id, search |-> "none",
     raw_results |-> <<>>, sh_results |-> <<>>,
     started |-> <<>>, in_progress |-> {}, asf_downloads |-> <<>>, sh_downloads |-> <<>>,
     zips |-> zips, jsons |-> jsons, empty |-> {}, jsons_before |-> jsons,
     io |-> NoIo, summary_file |-> "none", summary |-> NoSummary, raised_at |-> "none"]

InitRun ==
    /\ asf_results = <<>>
    /\ days_back \in DaysBackValues
    /\ current_time = 0
    /\ sel = SelPending
    /\ run \in { RunStart(c, z, j) : c \in BOOLEAN, z \in SUBSET {"A"}, j \in SUBSET {"A"} }
    /\ AcqIdle
    /\ VerifyIdle
    /\ SchedIdle
    /\ CliIdle
    /\ ResumeIdle

\* Line 398.
SearchAsf ==
    /\ run.pc = "search_asf"
    /\ \E search \in Searches :
          LET r == search_asf_data(search)
          IN  IF r.outcome = "raised"
              THEN /\ run' = [run EXCEPT !.pc = "raised", !.raised_at = "search_asf",
                                          !.search = search.kind,
                                          !.raw_results = search.results]
                   /\ UNCHANGED asf_results
              ELSE /\ asf_results' = r.data_list
                   /\ run' = [run EXCEPT !.pc = "search_sh", !.search = search.kind,
                                          !.raw_results = search.results]
    /\ UNCHANGED <<days_back, current_time, sel, acqvars, vervars, schedvars, clivars, resvars>>

\* Line 399.
SearchSentinelHub ==
    /\ run.pc = "search_sh"
    /\ run' = [run EXCEPT !.pc = "select",
                          !.sh_results = search_sentinel_hub_data(run.has_client_id)]
    /\ UNCHANGED <<selvars, acqvars, vervars, schedvars, clivars, resvars>>

\* Line 402: an exception of find_target_scenes leaves run_pipeline.
SelectTargets ==
    /\ run.pc = "select"
    /\ \E now \in Nows :
          LET r == find_target_scenes(asf_results, days_back, now)
          IN  /\ current_time' = now
              /\ sel' = r
              /\ run' = [run EXCEPT
                            !.pc = IF r.outcome = "raised" THEN "raised"
                                   ELSE PcAfter(r.selected_scenes, <<>>, run.sh_results, <<>>),
                            !.raised_at = IF r.outcome = "raised" THEN "select" ELSE @]
    /\ UNCHANGED <<asf_results, days_back, acqvars, vervars, schedvars, clivars, resvars>>

\* Variant of NextToStart: the acquisitions of all remaining scenes are
\* started together (asyncio.gather over target_scenes).
AllRemaining(target_scenes, asf_downloads) ==
    (Len(asf_downloads) + 1)..Len(target_scenes)

\* Lines 413-415: the positions of target_scenes whose download_asf_data is
\* called when the loop reaches its await: the next one.
NextToStart(target_scenes, asf_downloads) == {Len(asf_downloads) + 1}

\* The scene whose download_asf_data is running.
Downloading == sel.selected_scenes[Len(run.asf_downloads) + 1]

\* Lines 413-415 and 329-342: the loop calls download_asf_data for the next
\* scene.  With <granule>.zip on disk the call is about to return True
\* (line 334); else it is suspended in aiofiles.open (line 342).
BeginDownloadAsf ==
    /\ run.pc = "download_asf"
    /\ run.in_progress = {}
    /\ LET positions == NextToStart(sel.selected_scenes, run.asf_downloads)
           names == GranuleNamesOf(sel.selected_scenes)
       IN  run' = [run EXCEPT
                     !.in_progress = positions,
                     !.started = @ \o SubSeq(names, Len(run.asf_downloads) + 1,
                                             Len(run.asf_downloads) + Cardinality(positions)),
                     !.io = [NoIo EXCEPT
                               !.stage = IF Downloading.granule_name \in run.zips
                                         THEN "return" ELSE "open",
                               !.before = MetadataFiles(run.jsons, run.empty)]]
    /\ UNCHANGED <<selvars, acqvars, vervars, schedvars, clivars, resvars>>

\* Line 342: aiofiles.open resumes the coroutine: the file is there and
\* empty, and the coroutine is suspended in f.write (line 343); or the open
\* was refused and the handler of line 348 is about to return False.
OpenMetadata ==
    /\ run.pc = "download_asf"
    /\ run.io.stage = "open"
    /\ \E refused \in BOOLEAN :
          IF refused
          THEN run' = [run EXCEPT !.io.stage = "return", !.io.refused_at = "open"]
          ELSE LET disk == MetadataOpened(MetadataFiles(run.jsons, run.empty),
                                          Downloading.granule_name)
               IN  run' = [run EXCEPT !.io.stage = "write",
                                      !.jsons = disk.jsons, !.empty = disk.empty]
    /\ UNCHANGED <<selvars, acqvars, vervars, schedvars, clivars, resvars>>

\* Line 343: f.write resumes the coroutine, which leaves the block and is
\* suspended in the close of the file; a refused write is on its way out of
\* the block through the same close.
WriteMetadata ==
    /\ run.pc = "download_asf"
    /\ run.io.stage = "write"
    /\ \E refused \in BOOLEAN :
          IF refused
          THEN run' = [run EXCEPT !.io.stage = "unwind", !.io.refused_at = "write",
                                  !.io.error = "OSError"]
          ELSE run' = [run EXCEPT !.io.stage = "close", !.io.buffered = TRUE]
    /\ UNCHANGED <<selvars, acqvars, vervars, schedvars, clivars, resvars>>

\* Lines 342-350: the close resumes the coroutine.  After a write that
\* returned the text is in the file and line 346 is about to return True,
\* unless the close was refused.  On the way out with an exception the
\* close writes what the file object holds; a refused close replaces the
\* exception by its OSError.  The handler of line 348 catches an OSError and
\* is about to return False; a CancelledError is not caught and leaves
\* run_pipeline.
CloseMetadata ==
    /\ run.pc = "download_asf"
    /\ run.io.stage \in {"close", "unwind"}
    /\ \E refused \in BOOLEAN :
          LET files == MetadataFiles(run.jsons, run.empty)
              disk == IF run.io.buffered /\ ~refused
                      THEN MetadataClosed(files, Downloading.granule_name)
                      ELSE files
              closed == [run EXCEPT !.jsons = disk.jsons, !.empty = disk.empty]
          IN  run' = IF refused
                     THEN [closed EXCEPT !.io.stage = "return", !.io.error = "OSError",
                                         !.io.refused_at =
                                            IF @ = "never" THEN "close" ELSE @]
                     ELSE IF run.io.error = "CancelledError"
                     THEN [closed EXCEPT !.pc = "cancelled", !.io.stage = "none"]
                     ELSE [closed EXCEPT !.io.stage = "return"]
    /\ UNCHANGED <<selvars, acqvars, vervars, schedvars, clivars, resvars>>

\* Lines 415-416: download_asf_data returns and its result is appended.
EndDownloadAsf ==
    /\ run.pc = "download_asf"
    /\ run.io.stage = "return"
    /\ \E i \in run.in_progress :
          LET r == download_asf_data(Downloading, run.zips, run.io.before.jsons,
                                     run.io.before.empty, run.io.refused_at)
              downloads == Append(run.asf_downloads, r.ret)
          IN  run' = [run EXCEPT !.in_progress = @ \ {i},
                                 !.asf_downloads = downloads,
                                 !.jsons = r.disk.jsons,
                                 !.empty = r.disk.empty,
                                 !.io = NoIo,
                                 !.pc = PcAfter(sel.selected_scenes, downloads,
                                                run.sh_results, run.sh_downloads)]
    /\ UNCHANGED <<selvars, acqvars, vervars, schedvars, clivars, resvars>>

\* Lines 419-421: one iteration of the loop over sh_results.
DownloadSentinelHub ==
    /\ run.pc = "download_sh"
    /\ LET item == run.sh_results[Len(run.sh_downloads) + 1]
           downloads == Append(run.sh_downloads, download_sentinel_hub_data(item))
       IN  run' = [run EXCEPT !.sh_downloads = downloads,
                              !.pc = PcAfter(sel.selected_scenes, run.asf_downloads,
                                             run.sh_results, downloads)]
    /\ UNCHANGED <<selvars, acqvars, vervars, schedvars, clivars, resvars>>

\* Lines 424-446: the summary is built and the coroutine is suspended in
\* aiofiles.open of pipeline_summary_<time>.json.
BeginSummary ==
    /\ run.pc = "summary"
    /\ run.io.stage = "none"
    /\ run' = [run EXCEPT !.io.stage = "open"]
    /\ UNCHANGED <<selvars, acqvars, vervars, schedvars, clivars, resvars>>

\* Line 446: aiofiles.open resumes the coroutine: the file is there and
\* empty and the coroutine is suspended in f.write (line 447); a refused
\* open leaves run_pipeline, which has no handler.
OpenSummary ==
    /\ run.pc = "summary"
    /\ run.io.stage = "open"
    /\ \E refused \in BOOLEAN :
          IF refused
          THEN run' = [run EXCEPT !.pc = "raised", !.raised_at = "summary",
                                  !.io.stage = "none", !.io.refused_at = "open"]
          ELSE run' = [run EXCEPT !.io.stage = "write", !.summary_file = "empty"]
    /\ UNCHANGED <<selvars, acqvars, vervars, schedvars, clivars, resvars>>

\* Line 447: f.write resumes the coroutine, which leaves the block and is
\* suspended in the close of the file; a refused write is on its way out of
\* the block through the same close.
WriteSummary ==
    /\ run.pc = "summary"
    /\ run.io.stage = "write"
    /\ \E refused \in BOOLEAN :
          IF refused
          THEN run' = [run EXCEPT !.io.stage = "unwind", !.io.refused_at = "write",
                                  !.io.error = "OSError"]
          ELSE run' = [run EXCEPT !.io.stage = "close", !.io.buffered = TRUE]
    /\ UNCHANGED <<selvars, acqvars, vervars, schedvars, clivars, resvars>>

\* Lines 446-454: the close resumes the coroutine.  After a write that
\* returned the summary is in the file and line 454 returns it, unless the
\* close was refused.  On the way out with an exception the close writes
\* what the file object holds; a refused close replaces the exception by
\* its OSError.  Every exception leaves run_pipeline.
CloseSummary ==
    /\ run.pc = "summary"
    /\ run.io.stage \in {"close", "unwind"}
    /\ \E refused \in BOOLEAN :
          LET summary == Summary(asf_results, run.sh_results, sel.selected_scenes,
                                 run.asf_downloads, run.sh_downloads, days_back)
              closed == IF run.io.buffered /\ ~refused
                        THEN [run EXCEPT !.summary_file = "written", !.summary = summary]
                        ELSE run
          IN  run' = IF refused
                     THEN [closed EXCEPT !.pc = "raised", !.raised_at = "summary",
                                         !.io.stage = "none", !.io.error = "OSError",
                                         !.io.refused_at =
                                            IF @ = "never" THEN "close" ELSE @]
                     ELSE IF run.io.error = "CancelledError"
                     THEN [closed EXCEPT !.pc = "cancelled", !.io.stage = "none"]
                     ELSE IF run.io.error = "OSError"
                     THEN [closed EXCEPT !.pc = "raised", !.raised_at = "summary",
                                         !.io.stage = "none"]
                     ELSE [closed EXCEPT !.pc = "returned", !.io.stage = "none"]
    /\ UNCHANGED <<selvars, acqvars, vervars, schedvars, clivars, resvars>>

\* What the operation the coroutine awaits has done to the file when a
\* CancelledError is thrown into the await.  aiofiles runs the operation in
\* a thread of the pool, which the cancellation of the await does not
\* stop: the operation has acted on the file, or it has not.
CancelledIo(r, acted) ==
    LET stage == r.io.stage
        g == r.started[Len(r.asf_downloads) + 1]
        meta == r.pc = "download_asf"
        files == MetadataFiles(r.jsons, r.empty)
        opened == IF meta
                  THEN LET d == MetadataOpened(files, g)
                       IN  [r EXCEPT !.jsons = d.jsons, !.empty = d.empty]
                  ELSE [r EXCEPT !.summary_file = "empty"]
        closed == IF ~r.io.buffered THEN r
                  ELSE IF meta
                  THEN LET d == MetadataClosed(files, g)
                       IN  [r EXCEPT !.jsons = d.jsons, !.empty = d.empty]
                  ELSE [r EXCEPT !.summary_file = "written",
                                 !.summary = Summary(asf_results, r.sh_results,
                                                     sel.selected_scenes, r.asf_downloads,
                                                     r.sh_downloads, days_back)]
    IN  IF ~acted THEN r
        ELSE IF stage = "open" THEN opened
        ELSE IF stage = "write" THEN [r EXCEPT !.io.buffered = TRUE]
        ELSE closed

\* The task of the run is cancelled, or the process interrupted, while the
\* coroutine is suspended in an await of lines 342-343 or 446-447, or
\* before its first step.  CancelledError is no Exception: line 348 does not
\* catch it.  Thrown into the open or into a close it leaves run_pipeline;
\* thrown into f.write it leaves the block through the close of the file.
CancelRun ==
    /\ \/ /\ run.io.stage \in {"open", "write", "close", "unwind"}
          /\ \E acted \in BOOLEAN :
                LET r == CancelledIo(run, acted)
                IN  run' = IF run.io.stage = "write"
                           THEN [r EXCEPT !.io.stage = "unwind",
                                          !.io.error = "CancelledError"]
                           ELSE [r EXCEPT !.pc = "cancelled", !.io.stage = "none",
                                          !.io.error = "CancelledError"]
       \/ /\ run.pc = "search_asf"
          /\ run' = [run EXCEPT !.pc = "cancelled", !.io.error = "CancelledError"]
    /\ UNCHANGED <<selvars, acqvars, vervars, schedvars, clivars, resvars>>

NextRun ==
    \/ SearchAsf
    \/ SearchSentinelHub
    \/ SelectTargets
    \/ BeginDownloadAsf
    \/ OpenMetadata
    \/ WriteMetadata
    \/ CloseMetadata
    \/ EndDownloadAsf
    \/ DownloadSentinelHub
    \/ BeginSummary
    \/ OpenSummary
    \/ WriteSummary
    \/ CloseSummary
    \/ CancelRun

SpecRun == InitRun /\ [][NextRun]_vars

---------------------------------------------------------------------------
(* The scheduler loop: src/sar_pipeline.py, schedule_pipeline.             *)

\* Line 464: seconds per hour of the interval.
SecondsPerHour == 3600
\* Line 467: the wait after a run that raised, in seconds.
RetryDelay == 3600

\* Values of interval_hours; 24 is the default of line 456.
IntervalHours == {1, 6, 24}

\* What the searches of the scheduled runs return: nothing, one record, or
\* two records a week apart.
SchedSearches ==
    {<<>>}
      \cup { <<s>> : s \in Scenes }
      \cup { << [granule_name |-> "A",
                 acquisition_date |-> [kind |-> "utc", t |-> Now0 - 1 * TicksPerDay]],
               [granule_name |-> "B",
                acquisition_date |-> [kind |-> "utc", t |-> Now0 - 8 * TicksPerDay]] >> }

\* Line 463: how self.run_pipeline() ends on the given search result, with
\* the number of scenes it selected.  The exceptions of the searches and of
\* the downloads are caught inside the run (lines 212, 322, 348, 374); the
\* exception of find_target_scenes (line 402) is not, and neither is the
\* OSError of the summary file (lines 446-447), which summary_written = FALSE
\* stands for.
RunOutcome(records, n_days_back, now, summary_written) ==
    LET r == find_target_scenes(records, n_days_back, now)
    IN  IF r.outcome = "raised" \/ ~summary_written
        THEN [outcome |-> "raised", selected |-> 0]
        ELSE [outcome |-> "returned", selected |-> Len(r.selected_scenes)]

NoRun == [outcome |-> "none", selected |-> 0]

\* Variant of AfterRunRaised: the exception leaves the loop.
AfterRunRaisedPropagates(s, result) ==
    [s EXCEPT !.pc = "stopped", !.last = result, !.gap = <<>>]

\* Lines 465-466: an exception of the run is caught and logged; the
\* coroutine is about to wait at line 467.
AfterRunRaised(s, result) ==
    [s EXCEPT !.pc = "cooldown", !.last = result, !.gap = <<>>]

\* Line 463 returned: the coroutine is about to sleep at line 464.
AfterRunReturned(s, result) ==
    [s EXCEPT !.pc = "sleep", !.last = result, !.gap = <<>>]

\* Variant of AfterCooldown: the wait after a failed run is the interval.
AfterCooldownSleepsInterval(s) ==
    [s EXCEPT !.pc = "idle", !.gap = Append(@, s.interval_hours * SecondsPerHour)]

\* Line 467: asyncio.sleep(3600) has returned; back to line 461.
AfterCooldown(s) ==
    [s EXCEPT !.pc = "idle", !.gap = Append(@, RetryDelay)]

\* Line 464: asyncio.sleep(interval_hours * 3600) has returned; back to
\* line 461.
AfterSleep(s) ==
    [s EXCEPT !.pc = "idle", !.gap = Append(@, s.interval_hours * SecondsPerHour)]

\* pc: "idle" at line 461, "running" inside line 463, "sleep" inside line
\* 464, "cooldown" inside line 467, "stopped" when the coroutine has ended.
\* runs counts the runs started (up to MaxRuns), last is the end of the last
\* finished run, gap the waits since then, in seconds.
InitSchedule ==
    /\ sched \in { [pc |-> "idle", interval_hours |-> h, runs |-> 0, last |-> NoRun,
                     gap |-> <<>>, cancelled |-> FALSE] : h \in IntervalHours }
    /\ SelectIdle
    /\ AcqIdle
    /\ VerifyIdle
    /\ RunIdle
    /\ CliIdle
    /\ ResumeIdle

\* Lines 461-463: the loop calls run_pipeline.
StartRun ==
    /\ sched.pc = "idle"
    /\ sched' = [sched EXCEPT !.pc = "running",
                              !.runs = IF @ < MaxRuns THEN @ + 1 ELSE @]
    /\ UNCHANGED <<selvars, acqvars, vervars, runvars, clivars, resvars>>

\* Line 463: run_pipeline returns or raises; its days_back is the configured
\* value (line 384).
FinishRun ==
    /\ sched.pc = "running"
    /\ \E records \in SchedSearches, n_days_back \in DaysBackValues, now \in Nows,
          summary_written \in BOOLEAN :
          LET result == RunOutcome(records, n_days_back, now, summary_written)
          IN  sched' = IF result.outcome = "raised"
                       THEN AfterRunRaised(sched, result)
                       ELSE AfterRunReturned(sched, result)
    /\ UNCHANGED <<selvars, acqvars, vervars, runvars, clivars, resvars>>

\* Line 464 completes.
SleepInterval ==
    /\ sched.pc = "sleep"
    /\ sched' = AfterSleep(sched)
    /\ UNCHANGED <<selvars, acqvars, vervars, runvars, clivars, resvars>>

\* Line 467 completes.
Cooldown ==
    /\ sched.pc = "cooldown"
    /\ sched' = AfterCooldown(sched)
    /\ UNCHANGED <<selvars, acqvars, vervars, runvars, clivars, resvars>>

\* The task is cancelled or the process interrupted while the coroutine is
\* suspended in an await: CancelledError and KeyboardInterrupt are not
\* subclasses of Exception, so line 465 does not catch them.  A task that is
\* cancelled before its first step ends the same way, with no run started;
\* later passages of line 461 are inside the step that began when the sleep
\* returned, where nothing can be delivered.
\* A CancelledError thrown into f.write of the run (line 343 or 447) can be
\* lost: it leaves the async with block through the close of the file, and
\* the OSError of a refused close replaces it.  At the summary file that
\* OSError leaves run_pipeline and line 465 catches it; at a metadata file
\* line 348 catches it and the run, which has selected a scene, goes on to
\* its end.
Cancel ==
    /\ \/ sched.pc \in {"running", "sleep", "cooldown"}
       \/ sched.pc = "idle" /\ sched.runs = 0
    /\ \/ sched' = [sched EXCEPT !.pc = "stopped", !.cancelled = TRUE]
       \/ /\ sched.pc = "running"
          /\ \E records \in SchedSearches, n_days_back \in DaysBackValues, now \in Nows,
                summary_written \in BOOLEAN :
                LET result == RunOutcome(records, n_days_back, now, summary_written)
                IN  /\ result.outcome = "raised" \/ result.selected >= 1
                    /\ sched' = IF result.outcome = "raised"
                                THEN AfterRunRaised(sched, result)
                                ELSE AfterRunReturned(sched, result)
    /\ UNCHANGED <<selvars, acqvars, vervars, runvars, clivars, resvars>>

NextSchedule ==
    \/ StartRun
    \/ FinishRun
    \/ SleepInterval
    \/ Cooldown
    \/ Cancel

SpecSchedule == InitSchedule /\ [][NextSchedule]_vars

\* The event loop resumes the coroutine when the awaited sleep is over, and
\* the coroutine then runs to its next await: the loop's own steps are
\* weakly fair.  Nothing is assumed of the run's end or of cancellation.
SpecScheduleFair ==
    /\ InitSchedule
    /\ [][NextSchedule]_vars
    /\ WF_vars(StartRun)
    /\ WF_vars(SleepInterval)
    /\ WF_vars(Cooldown)


---------------------------------------------------------------------------
(* The polarization-to-file query: src/downloader.py,                      *)
(* get_measurement_files, on a product directory that is also verified.    *)

\* The sample measurement file names and one that carries two tags.
MeasurementNames == TiffNames \cup {"s1a-iw-slc-vv-vh-006.tiff"}

\* The product directories of the query: as AllTrees, over MeasurementNames.
MeasurementTrees ==
    { t \in [exists : {TRUE}, dirs : SUBSET RequiredDirs, plain : SUBSET RequiredDirs,
             manifest : BOOLEAN, tiffs : SUBSET MeasurementNames] :
        /\ t.dirs \cap t.plain = {}
        /\ t.tiffs /= {} => "measurement" \in t.dirs }

\* Line 313: the orders in which glob can list the files.
GlobOrders(files) ==
    { order \in [1..Cardinality(files) -> files] :
        \A i, j \in 1..Cardinality(files) : order[i] = order[j] => i = j }

\* Variant of AddMeasurementFile: a file without a tag is filed under 'VV'.
AddMeasurementFileDefaultsToVV(measurement_files, tiff_file) ==
    LET tag == IF PolarizationOf(tiff_file) = "none" THEN "VV" ELSE PolarizationOf(tiff_file)
    IN  [t \in DOMAIN measurement_files \cup {tag} |->
            IF t = tag THEN tiff_file ELSE measurement_files[t]]

\* Lines 314-323: one pass of the loop: the file is stored under the tag of
\* the if/elif chain, replacing an earlier file of that tag.
AddMeasurementFile(measurement_files, tiff_file) ==
    LET tag == PolarizationOf(tiff_file)
    IN  IF tag = "none" THEN measurement_files
        ELSE [t \in DOMAIN measurement_files \cup {tag} |->
                 IF t = tag THEN tiff_file ELSE measurement_files[t]]

\* Lines 308 and 313-323: the loop over the files in glob's order.
RECURSIVE MeasurementFilesIn(_)
MeasurementFilesIn(order) ==
    IF order = <<>> THEN [t \in {} |-> ""]
    ELSE AddMeasurementFile(MeasurementFilesIn(SubSeq(order, 1, Len(order) - 1)),
                            order[Len(order)])

\* Lines 306-329: get_measurement_files(safe_path); glob lists nothing when
\* measurement is missing or a plain file.
get_measurement_files(tree, order) ==
    IF "measurement" \in tree.dirs THEN MeasurementFilesIn(order) ELSE [t \in {} |-> ""]

InitMeasure ==
    /\ product \in MeasurementTrees \cup {NoDir}
    /\ verification = VerifyPending
    /\ SelectIdle
    /\ AcqIdle
    /\ RunIdle
    /\ SchedIdle
    /\ CliIdle
    /\ ResumeIdle

\* One call of get_measurement_files(safe_path) on the verified directory.
GetMeasurementFiles ==
    /\ verification.outcome /= "pending"
    /\ "measurement_files" \notin DOMAIN verification
    /\ \E order \in GlobOrders(product.tiffs) :
          verification' = [outcome |-> verification.outcome,
                           ret |-> verification.ret,
                           before |-> verification.before,
                           glob_order |-> order,
                           measurement_files |-> get_measurement_files(product, order)]
    /\ UNCHANGED <<selvars, acqvars, product, runvars, schedvars, clivars, resvars>>

NextMeasure ==
    \/ Verify
    \/ GetMeasurementFiles

SpecMeasure == InitMeasure /\ [][NextMeasure]_vars

---------------------------------------------------------------------------
(* The points at which one acquisition can be stopped: src/downloader.py,  *)
(* download_scene_with_progress and extract_safe_optimized, and the disk   *)
(* each point leaves behind.                                               *)

\* The archives the server delivers, or that an earlier run left in raw_zip/.
ResumeArchives ==
    {Unreadable}
      \cup [exists : {TRUE}, root : Names, tree : {CompleteTree, NoManifestTree},
            readable : {TRUE}, bad_member : {FALSE}]

\* Lines 231-232: what the loop over safe_members has extracted when it is
\* stopped; the order of the members is the archive's.  Extracting a file
\* creates its directory.
PartialTrees(tree) ==
    { t \in [exists : {TRUE}, dirs : SUBSET tree.dirs, plain : SUBSET tree.plain,
             manifest : {FALSE, tree.manifest}, tiffs : SUBSET tree.tiffs] :
        t.tiffs /= {} => "measurement" \in t.dirs }

\* Line 224: what shutil.rmtree has left of an existing directory when it is
\* stopped.  It unlinks the entries in the order of the directory listing,
\* a subdirectory after its own entries, and the directory itself last.
RemovalPoints(tree) == PartialTrees(tree)

\* Lines 222-232: the contents of safe_extracted/ at the points where
\* extract_safe_optimized can be stopped after it has changed the disk: the
\* existing directory partly removed, removed, and then some of the members
\* extracted.
ExtractionPoints(archive, safe) ==
    IF ~archive.readable \/ archive.root = NoRoot
    THEN {}
    ELSE LET cleared == RemoveExisting(safe, archive.root)
             members == IF archive.bad_member
                        THEN ExtractedBeforeFailure(archive.tree)
                        ELSE archive.tree
             removing == IF safe[archive.root].exists
                         THEN { [safe EXCEPT ![archive.root] = t] :
                                  t \in RemovalPoints(safe[archive.root]) }
                         ELSE {}
         IN  removing
               \cup {cleared}
               \cup { [cleared EXCEPT ![archive.root] = ExtractMembers(@, t)] :
                        t \in PartialTrees(members) }

\* Lines 141-193: the disk at the points where one invocation can be stopped.
\* `at` names the stage: nothing changed yet, the transfer under way (a
\* partial file at zip_path), the transfer done, the extraction under way.
DisksAtAbort(scene, archive, raw, safe) ==
    LET g == scene.granule_name
        unchanged == {[at |-> "unchanged", raw |-> raw, safe |-> safe]}
        extracting(z, r) ==
            { [at |-> "in_extraction", raw |-> r, safe |-> s] : s \in ExtractionPoints(z, safe) }
    IN  IF SafeAlreadyExists(scene, safe)
        THEN unchanged
        ELSE IF ZipAlreadyExists(scene, raw)
        THEN unchanged \cup extracting(raw[g], raw)
        ELSE LET saved == [raw EXCEPT ![g] = archive]
             IN  unchanged
                   \cup {[at |-> "in_transfer", raw |-> [raw EXCEPT ![g] = Unreadable],
                          safe |-> safe]}
                   \cup {[at |-> "after_transfer", raw |-> saved, safe |-> safe]}
                   \cup extracting(archive, saved)

---------------------------------------------------------------------------
(* The download tool: src/downloader.py, main, with the constructor and    *)
(* authenticate of ASFOfficialDownloader.  The scenes' acquisitions act on  *)
(* the disk variables of the per-scene acquisition.                        *)

\* Lines 68-70: whether EDL_TOKEN, ASF_USERNAME and ASF_PASSWORD are set to a
\* non-empty value.
Credentials == [edl_token : BOOLEAN, username : BOOLEAN, password : BOOLEAN]

\* Variant of HasCredentials: a username without a password counts.
HasCredentialsUsernameOnly(credentials) ==
    credentials.edl_token \/ credentials.username

\* Line 81: a token, or both a username and a password.
HasCredentials(credentials) ==
    credentials.edl_token \/ (credentials.username /\ credentials.password)

\* Lines 81-83: the constructor prints that credentials are required, and the
\* setup instructions; it returns normally.
ReportsMissingCredentials(credentials) == ~HasCredentials(credentials)

\* What the ASF session does with a token (auth_with_token) and with a login
\* (auth_with_creds): it accepts, it raises ASFAuthenticationError, or it
\* raises another exception.
SessionAnswers == [token : {"accepts", "refuses", "fails"},
                   login : {"accepts", "refuses", "fails"}]

\* Variant of authenticate: after a token the session did not accept, the
\* username and password are tried.
authenticate_with_fallback(credentials, session) ==
    IF credentials.edl_token /\ session.token = "accepts"
    THEN [outcome |-> "returned", method |-> "token", auth_requests |-> 1, result |-> TRUE]
    ELSE IF credentials.username /\ credentials.password
    THEN [outcome |-> "returned", method |-> "login",
          auth_requests |-> IF credentials.edl_token THEN 2 ELSE 1,
          result |-> session.login = "accepts"]
    ELSE [outcome |-> "returned", method |-> IF credentials.edl_token THEN "token" ELSE "none",
          auth_requests |-> IF credentials.edl_token THEN 1 ELSE 0, result |-> FALSE]

\* Lines 98-128.  With a token the session is asked to authenticate it
\* (line 106), else with a username and a password it is asked to
\* authenticate them (line 114): True when it accepts, False when it raises
\* (handlers of lines 122-128).  Without, line 120 returns False and no
\* session is made.  method is the branch taken.
authenticate(credentials, session) ==
    IF credentials.edl_token
    THEN [outcome |-> "returned", method |-> "token", auth_requests |-> 1,
          result |-> session.token = "accepts"]
    ELSE IF credentials.username /\ credentials.password
    THEN [outcome |-> "returned", method |-> "login", auth_requests |-> 1,
          result |-> session.login = "accepts"]
    ELSE [outcome |-> "returned", method |-> "none", auth_requests |-> 0, result |-> FALSE]

\* Lines 376-377: the metadata files of the directory, in the order glob
\* lists them; each holds one scene record.
MetadataLists == UNION { [1..n -> AcqScenes] : n \in 0..MaxFiles }

\* --max-scenes (line 341): any integer (type=int), 1 by default.
MaxScenesValues == {-1, 0, 1, MaxFiles}

\* Line 385: the slice metadata_files[:max_scenes].  A stop of 0 or more
\* keeps that many files from the front, at most all of them; a negative
\* stop counts from the end, so that the last -max_scenes files are dropped
\* and the rest is kept (nothing, when there are no more files than that).
Limit(metadata_files, max_scenes) ==
    LET n == Len(metadata_files)
        stop == IF max_scenes < 0
                THEN IF n + max_scenes > 0 THEN n + max_scenes ELSE 0
                ELSE IF max_scenes < n THEN max_scenes ELSE n
    IN  SubSeq(metadata_files, 1, stop)

\* Lines 417-418: main returns on every path, the handler of line 412
\* included, and the module ends, so the interpreter exits with status 0
\* whatever was printed.
ExitStatus(message) == 0

\* What main knows of the authentication: not asked, or its result.
AuthState(result) == IF result THEN "yes" ELSE "no"

\* The state after parse_args and the constructor (lines 346-352).
CliStart(credentials, check_auth, files, max_scenes) ==
    [pc |-> "start", credentials |-> credentials, check_auth |-> check_auth,
     config_error_reported |-> ReportsMissingCredentials(credentials),
     files |-> files, max_scenes |-> max_scenes, metadata_files |-> <<>>,
     authenticated |-> "not_asked", auth_requests |-> 0,
     auth_method |-> "none", auth_outcome |-> "none",
     session |-> [token |-> "none", login |-> "none"],
     attempted |-> 0, transfers |-> 0, results |-> <<>>,
     interrupted_at |-> "none",
     message |-> "none", exit_status |-> -1]

\* main has returned with the given last message.
Exited(c, message) ==
    [c EXCEPT !.pc = "exited", !.message = message, !.exit_status = ExitStatus(message)]

\* Lines 98-128 stopped by a KeyboardInterrupt, which neither handler of
\* lines 122-128 catches, so authenticate raises.  point "before": no
\* request was made yet (lines 100-105, 111-113), or none is made at all
\* (lines 118-120); point "request": in the session's request of line 106 or
\* 114 or after it (lines 107-108, 115-116, 123-128), which needs a token or
\* a login.
InterruptedInAuthenticate(c, point) ==
    [c EXCEPT !.authenticated = "raised",
              !.auth_requests = IF point = "request"
                                THEN authenticate(c.credentials, c.session).auth_requests
                                ELSE 0,
              !.auth_method = IF point = "request"
                              THEN authenticate(c.credentials, c.session).method
                              ELSE "none",
              !.auth_outcome = "raised"]

\* Lines 130-201 stopped by a KeyboardInterrupt, which the handlers of lines
\* 195-201 do not catch: the numbers of calls of asf.download_urls and
\* of extract_safe_optimized begun when the invocation is stopped at the
\* given point.
CallsAtAbort(scene, at, raw, safe) ==
    LET from_zip == ZipAlreadyExists(scene, raw)
    IN  IF at = "unchanged"
        THEN IF SafeAlreadyExists(scene, safe) THEN {[transfers |-> 0, extractions |-> 0]}
             ELSE IF from_zip
             THEN {[transfers |-> 0, extractions |-> 0], [transfers |-> 0, extractions |-> 1]}
             ELSE {[transfers |-> 0, extractions |-> 0], [transfers |-> 1, extractions |-> 0]}
        ELSE IF at = "in_transfer" THEN {[transfers |-> 1, extractions |-> 0]}
        ELSE IF at = "after_transfer"
        THEN {[transfers |-> 1, extractions |-> 0], [transfers |-> 1, extractions |-> 1]}
        ELSE {[transfers |-> IF from_zip THEN 0 ELSE 1, extractions |-> 1]}

\* Variant of ProceedsToDownload: the test of line 393 is missing.
ProceedsRegardless(result) == TRUE

\* Lines 393-395: the loop is entered only when authenticate returned True.
ProceedsToDownload(result) == result

\* The network behaviours considered for one scene of the tool's loop: the
\* transfer saves a complete product, one without its manifest, a file that
\* is no zip, or raises.  With the product or the archive on disk the
\* network is not asked.
MainTransfers(scene, raw, safe) ==
    LET saved(archive) == [kind |-> "saved", archive |-> archive]
        product_of(tree) == [exists |-> TRUE, root |-> scene.granule_name, tree |-> tree,
                             readable |-> TRUE, bad_member |-> FALSE]
    IN  IF scene.has_url /\ ~safe[scene.granule_name].exists /\ ~raw[scene.granule_name].exists
        THEN {saved(product_of(CompleteTree)), saved(product_of(NoManifestTree)),
              saved(Unreadable), [kind |-> "raised", archive |-> Unreadable]}
        ELSE {saved(product_of(CompleteTree))}

InitMain ==
    /\ cli \in { CliStart(c, k, f, m) :
                   c \in Credentials, k \in BOOLEAN, f \in MetadataLists, m \in MaxScenesValues }
    /\ raw_dir = [n \in Names |-> NoFile]
    /\ safe_dir = [n \in Names |-> NoDir]
    /\ call = NoCall
    /\ SelectIdle
    /\ VerifyIdle
    /\ RunIdle
    /\ SchedIdle
    /\ ResumeIdle

\* Lines 355-373: --check-auth authenticates, tries one search and returns.
CheckAuth ==
    /\ cli.pc = "start"
    /\ cli.check_auth
    /\ \E session \in SessionAnswers :
          LET a == authenticate(cli.credentials, session)
          IN  cli' = Exited([cli EXCEPT !.authenticated = AuthState(a.result),
                                        !.auth_requests = a.auth_requests,
                                        !.auth_method = a.method,
                                        !.auth_outcome = a.outcome,
                                        !.session = session],
                            IF a.result THEN "auth_ok" ELSE "auth_failed")
    /\ UNCHANGED <<selvars, acqvars, vervars, runvars, schedvars, resvars>>

\* Lines 376-389: list the metadata files; return when there is none.
ListMetadata ==
    /\ cli.pc = "start"
    /\ ~cli.check_auth
    /\ cli' = IF cli.files = <<>>
              THEN Exited(cli, "no_metadata")
              ELSE [cli EXCEPT !.pc = "authenticate",
                               !.metadata_files = Limit(cli.files, cli.max_scenes)]
    /\ UNCHANGED <<selvars, acqvars, vervars, runvars, schedvars, resvars>>

\* Lines 393-396: authenticate; on failure main returns, and with no file
\* left by the slice of line 385 the loop of line 397 has no pass and main
\* returns as after the last pass.
Authenticate ==
    /\ cli.pc = "authenticate"
    /\ \E session \in SessionAnswers :
          LET a == authenticate(cli.credentials, session)
              c == [cli EXCEPT !.authenticated = AuthState(a.result),
                               !.auth_requests = a.auth_requests,
                               !.auth_method = a.method,
                               !.auth_outcome = a.outcome,
                               !.session = session]
          IN  cli' = IF ~ProceedsToDownload(a.result)
                     THEN Exited(c, "auth_failed")
                     ELSE IF c.metadata_files = <<>>
                     THEN Exited(c, "completed")
                     ELSE [c EXCEPT !.pc = "loop"]
    /\ UNCHANGED <<selvars, acqvars, vervars, runvars, schedvars, resvars>>

\* Lines 397-415: one pass of the loop.  An exception of the pass (a scene
\* record without 'url') leaves the loop for the handler of line 414, which
\* prints and lets main return; after the last pass main returns.
ProcessScene ==
    /\ cli.pc = "loop"
    /\ LET scene == cli.metadata_files[cli.attempted + 1]
       IN  \E transfer \in MainTransfers(scene, raw_dir, safe_dir) :
             LET r == download_scene_with_progress(scene, transfer, raw_dir, safe_dir)
                 c == [cli EXCEPT !.attempted = @ + 1,
                                  !.transfers = @ + r.call.transfers]
                 d == [c EXCEPT !.results =
                                   Append(@, IF r.call.ret /= None THEN "complete" ELSE "failed")]
             IN  /\ raw_dir' = r.raw
                 /\ safe_dir' = r.safe
                 /\ call' = r.call
                 /\ cli' = IF r.call.outcome = "raised"
                           THEN Exited(c, "download_error")
                           ELSE IF d.attempted = Len(d.metadata_files)
                           THEN Exited(d, "completed")
                           ELSE d
    /\ UNCHANGED <<selvars, vervars, runvars, schedvars, resvars>>

\* Lines 355-373 stopped by Ctrl-C: before authenticate is called, inside
\* it, or after it has returned (the prints and the test search of line
\* 364).  None of these lines is inside a handler for KeyboardInterrupt (the
\* one of line 370 is `except Exception`), so the interrupt leaves main and
\* the interpreter ends the process with SIGINT, which its parent reads as
\* status -2.  interrupted_at tells whether the interrupt arrived in main's
\* own lines, inside authenticate or inside the acquisition of a scene.
InterruptCheckAuth ==
    /\ cli.pc = "start"
    /\ cli.check_auth
    /\ \/ cli' = [cli EXCEPT !.pc = "killed", !.interrupted_at = "main",
                              !.exit_status = -2]
       \/ \E point \in {"before", "request"} :
             /\ point = "request" => HasCredentials(cli.credentials)
             /\ cli' = [InterruptedInAuthenticate(cli, point) EXCEPT
                           !.pc = "killed", !.interrupted_at = "authenticate",
                           !.exit_status = -2]
       \/ \E session \in SessionAnswers :
             LET a == authenticate(cli.credentials, session)
             IN  cli' = [cli EXCEPT !.authenticated = AuthState(a.result),
                                   !.auth_requests = a.auth_requests,
                                   !.auth_method = a.method,
                                   !.auth_outcome = a.outcome,
                                   !.session = session,
                                   !.pc = "killed", !.interrupted_at = "main",
                                   !.exit_status = -2]
    /\ UNCHANGED <<selvars, acqvars, vervars, runvars, schedvars, resvars>>

\* Lines 376-389 stopped by Ctrl-C, while the metadata files are listed or
\* after the list is cut to --max-scenes: before the try of line 392, so the
\* process ends as under --check-auth.
InterruptListing ==
    /\ cli.pc \in {"start", "authenticate"}
    /\ ~cli.check_auth
    /\ cli' = [cli EXCEPT !.pc = "killed", !.interrupted_at = "main", !.exit_status = -2]
    /\ UNCHANGED <<selvars, acqvars, vervars, runvars, schedvars, resvars>>

\* Lines 393-397 stopped by Ctrl-C, inside authenticate, in the print
\* after it returned False or, when it returned True and the list of line
\* 385 is empty, at the loop that has no pass: the KeyboardInterrupt is
\* caught at line 412, "Download interrupted by user" is printed and main
\* returns.
InterruptAuthenticate ==
    /\ cli.pc = "authenticate"
    /\ \/ \E point \in {"before", "request"} :
             /\ point = "request" => HasCredentials(cli.credentials)
             /\ cli' = Exited([InterruptedInAuthenticate(cli, point) EXCEPT
                                  !.interrupted_at = "authenticate"],
                              "interrupted")
       \/ \E session \in SessionAnswers :
             LET a == authenticate(cli.credentials, session)
             IN  /\ ~ProceedsToDownload(a.result) \/ cli.metadata_files = <<>>
                 /\ cli' = Exited([cli EXCEPT !.authenticated = AuthState(a.result),
                                              !.auth_requests = a.auth_requests,
                                              !.auth_method = a.method,
                                              !.auth_outcome = a.outcome,
                                              !.session = session,
                                              !.interrupted_at = "main"],
                                  "interrupted")
    /\ UNCHANGED <<selvars, acqvars, vervars, runvars, schedvars, resvars>>

\* Lines 397-410 stopped by Ctrl-C; the handler of line 412 lets main
\* return, and the later files are not attempted.
\*   - in main's own lines, before a pass (after authenticate returned
\*     True, or after the result of the pass before) or at its start, while
\*     the metadata file is read (lines 398-402): the disk is unchanged;
\*   - inside download_scene_with_progress (line 405), at a point where the
\*     call is under way, or at its end, when verify_safe_comprehensive (line
\*     235) has been reached if the call reaches it: the disk is left as the
\*     stopped call left it and no result is appended.  A record without
\*     'url' raises KeyError at line 134 before any transfer: its pass can
\*     be stopped only before that;
\*   - after the call returned (lines 407-410), before or after the result
\*     is printed;
\*   - in the handler of lines 414-415, entered by the KeyError of a record
\*     without 'url': the handler is outside the try, so the interrupt
\*     leaves main and the process ends with SIGINT (status -2).
InterruptScene ==
    /\ cli.pc = "loop"
    /\ LET scene == cli.metadata_files[cli.attempted + 1]
           stopped(transfers, extractions, verified) ==
               CallRecord(scene, "raised", None, "interrupted",
                          transfers, extractions, verified, raw_dir, safe_dir)
           begun(transfers) == [cli EXCEPT !.attempted = @ + 1,
                                           !.transfers = @ + transfers]
       IN  \/ /\ \E passes \in {0, 1} :
                    cli' = Exited([cli EXCEPT !.attempted = @ + passes,
                                              !.interrupted_at = "main"],
                                  "interrupted")
              /\ UNCHANGED acqvars
           \/ \E transfer \in MainTransfers(scene, raw_dir, safe_dir) :
                 /\ transfer.kind = "saved"
                 /\ \E d \in DisksAtAbort(scene, transfer.archive, raw_dir, safe_dir) :
                       \E n \in CallsAtAbort(scene, d.at, raw_dir, safe_dir) :
                          /\ \/ scene.has_url
                             \/ d.at = "unchanged" /\ n.transfers = 0 /\ n.extractions = 0
                          /\ raw_dir' = d.raw
                          /\ safe_dir' = d.safe
                          /\ call' = stopped(n.transfers, n.extractions, FALSE)
                          /\ cli' = Exited([begun(n.transfers) EXCEPT
                                              !.interrupted_at = "acquisition"],
                                           "interrupted")
           \/ \E transfer \in MainTransfers(scene, raw_dir, safe_dir) :
                 LET r == download_scene_with_progress(scene, transfer, raw_dir, safe_dir)
                 IN  /\ raw_dir' = r.raw
                     /\ safe_dir' = r.safe
                     /\ \/ /\ r.call.outcome = "raised"
                           /\ call' = r.call
                           /\ cli' = [begun(r.call.transfers) EXCEPT
                                         !.pc = "killed", !.interrupted_at = "main",
                                         !.exit_status = -2]
                        \/ /\ r.call.outcome = "returned"
                           /\ call' = stopped(r.call.transfers, r.call.extractions,
                                               r.call.verified)
                           /\ cli' = Exited([begun(r.call.transfers) EXCEPT
                                               !.interrupted_at = "acquisition"],
                                            "interrupted")
                        \/ /\ r.call.outcome = "returned"
                           /\ call' = r.call
                           /\ \E printed \in BOOLEAN :
                                 cli' = Exited([begun(r.call.transfers) EXCEPT
                                                  !.results =
                                                     IF printed
                                                     THEN Append(@, IF r.call.ret /= None
                                                                    THEN "complete"
                                                                    ELSE "failed")
                                                     ELSE @,
                                                  !.interrupted_at = "main"],
                                               "interrupted")
    /\ UNCHANGED <<selvars, vervars, runvars, schedvars, resvars>>

NextMain ==
    \/ CheckAuth
    \/ ListMetadata
    \/ Authenticate
    \/ ProcessScene
    \/ InterruptCheckAuth
    \/ InterruptListing
    \/ InterruptAuthenticate
    \/ InterruptScene

SpecMain == InitMain /\ [][NextMain]_vars

---------------------------------------------------------------------------
(* An acquisition aborted and invoked again: src/downloader.py,            *)
(* download_scene_with_progress and extract_safe_optimized, stopped with   *)
(* the process at some point and run again on the disk left behind.        *)

\* The outcome of an invocation: the returned path and safe_extracted/.
Outcome(r) == [ret |-> r.call.ret, safe |-> r.safe]

NoOutcome == [ret |-> None, safe |-> <<>>]

\* A scene to acquire and the archive the server holds for it; started_on is
\* the disk the first invocation started on.
ResumeStart(scene, archive) ==
    [phase |-> "start", scene |-> scene, archive |-> archive, at |-> "none",
     started_on |-> <<>>, reference |-> NoOutcome]

InitResume ==
    /\ raw_dir \in [Names -> ResumeArchives \cup {NoFile}]
    /\ safe_dir \in [Names -> {NoDir, CompleteTree, EmptyTree}]
    /\ call = NoCall
    /\ resume \in { ResumeStart(s, a) :
                      s \in {x \in AcqScenes : x.has_url}, a \in ResumeArchives }
    /\ SelectIdle
    /\ VerifyIdle
    /\ RunIdle
    /\ SchedIdle
    /\ CliIdle

\* The invocation runs to its end.
RunUninterrupted ==
    /\ resume.phase = "start"
    /\ LET r == download_scene_with_progress(
                    resume.scene, [kind |-> "saved", archive |-> resume.archive],
                    raw_dir, safe_dir)
       IN  /\ raw_dir' = r.raw
           /\ safe_dir' = r.safe
           /\ call' = r.call
           /\ resume' = [resume EXCEPT !.phase = "completed",
                                       !.started_on = [raw |-> raw_dir, safe |-> safe_dir],
                                       !.reference = Outcome(r)]
    /\ UNCHANGED <<selvars, vervars, runvars, schedvars, clivars>>

\* The process is stopped during the invocation; reference is the outcome
\* the invocation would have had.
Abort ==
    /\ resume.phase = "start"
    /\ LET r == download_scene_with_progress(
                    resume.scene, [kind |-> "saved", archive |-> resume.archive],
                    raw_dir, safe_dir)
       IN  \E d \in DisksAtAbort(resume.scene, resume.archive, raw_dir, safe_dir) :
             /\ raw_dir' = d.raw
             /\ safe_dir' = d.safe
             /\ resume' = [resume EXCEPT !.phase = "aborted", !.at = d.at,
                                         !.started_on = [raw |-> raw_dir, safe |-> safe_dir],
                                         !.reference = Outcome(r)]
    /\ UNCHANGED <<selvars, call, vervars, runvars, schedvars, clivars>>

\* After the restart the acquisition of the scene is invoked again.
Restart ==
    /\ resume.phase = "aborted"
    /\ LET r == download_scene_with_progress(
                    resume.scene, [kind |-> "saved", archive |-> resume.archive],
                    raw_dir, safe_dir)
       IN  /\ raw_dir' = r.raw
           /\ safe_dir' = r.safe
           /\ call' = r.call
           /\ resume' = [resume EXCEPT !.phase = "resumed"]
    /\ UNCHANGED <<selvars, vervars, runvars, schedvars, clivars>>

NextResume ==
    \/ RunUninterrupted
    \/ Abort
    \/ Restart

SpecResume == InitResume /\ [][NextResume]_vars

---------------------------------------------------------------------------
(* Properties of the scene selector.                                       *)

\* Helpers of the properties: the input positions whose date parsed, a
\* record's acquisition time, and its day-difference to the target, written
\* out from the call's inputs (the clock value, the lookback).
ParsedPositions == { i \in 1..Len(asf_results) : ParseDate(asf_results[i].acquisition_date).ok }
AcqTime(scene) == scene.acquisition_date.t
DayDiffToTarget(scene) ==
    Abs((AcqTime(scene) - (current_time - days_back * TicksPerDay)) \div TicksPerDay)
SelectorReturned == sel.outcome = "returned" /\ sel.selected_scenes /= <<>>
MinimalPositions ==
    { i \in ParsedPositions :
        \A j \in ParsedPositions : DayDiffToTarget(asf_results[i]) <= DayDiffToTarget(asf_results[j]) }

\* C1: for every non-empty list of records with at least one parseable
\* acquisition time, the selector returns 1 or 2 records, each one of the
\* input records, the first having the maximum acquisition time among the
\* records with a parseable time.
C1_ReturnsOneOrTwoFromInput ==
    (sel.outcome /= "pending" /\ ParsedPositions /= {}) =>
        /\ sel.outcome = "returned"
        /\ Len(sel.selected_scenes) \in {1, 2}
        /\ \A k \in 1..Len(sel.selected_scenes) :
              \E i \in 1..Len(asf_results) : asf_results[i] = sel.selected_scenes[k]
        /\ \E i \in ParsedPositions :
              /\ asf_results[i] = sel.selected_scenes[1]
              /\ \A j \in ParsedPositions : AcqTime(asf_results[i]) >= AcqTime(asf_results[j])

\* The extent of C1's failure: the statement of C1 holds of every call in
\* which no parsed date is timezone-aware.
C1_HoldsWithoutAwareDates ==
    (\A i \in ParsedPositions : ~ParseDate(asf_results[i].acquisition_date).aware)
        => C1_ReturnsOneOrTwoFromInput

\* C2: the selector emits only the most-recent record when the closest pick
\* has the same granule_name as the most-recent pick, and otherwise exactly
\* the two picks, most-recent first; no two records of the result share a
\* granule_name.
C2_DuplicateCollapse ==
    SelectorReturned =>
        /\ sel.closest_scene.granule_name = sel.most_recent.granule_name
              => sel.selected_scenes = <<sel.most_recent>>
        /\ sel.closest_scene.granule_name /= sel.most_recent.granule_name
              => sel.selected_scenes = <<sel.most_recent, sel.closest_scene>>
        /\ \A k, l \in 1..Len(sel.selected_scenes) :
              k /= l => sel.selected_scenes[k].granule_name /= sel.selected_scenes[l].granule_name
        /\ \E i \in ParsedPositions :
              /\ asf_results[i] = sel.most_recent
              /\ \A j \in ParsedPositions : AcqTime(asf_results[i]) >= AcqTime(asf_results[j])

\* C2 witness: the two picks are different records of the same granule_name
\* and only the most recent one is emitted.
C2_Witness ==
    /\ SelectorReturned
    /\ sel.closest_scene /= sel.most_recent
    /\ sel.closest_scene.granule_name = sel.most_recent.granule_name
    /\ sel.selected_scenes = <<sel.most_recent>>

\* C3 as stated: among the records with the minimum day-difference the
\* closest pick is the one that comes first in the input order.
C3_TieBreakInputOrder ==
    SelectorReturned =>
        \E i \in MinimalPositions :
            /\ asf_results[i] = sel.closest_scene
            /\ \A j \in MinimalPositions : j >= i

\* C3 amended: among the records with the minimum day-difference the closest
\* pick is the first in the newest-first sorted order: the one with the
\* latest acquisition time, and among those of equal time the first in the
\* input order.
C3_TieBreakSortedOrder ==
    SelectorReturned =>
        \E i \in MinimalPositions :
            /\ asf_results[i] = sel.closest_scene
            /\ \A j \in MinimalPositions :
                  \/ AcqTime(asf_results[j]) < AcqTime(asf_results[i])
                  \/ (AcqTime(asf_results[j]) = AcqTime(asf_results[i]) /\ j >= i)

\* C3 witness: two records tie on the day-difference, the older one comes
\* first in the input, and the newer one is the closest pick.
C3_Witness ==
    /\ SelectorReturned
    /\ \E i, j \in MinimalPositions :
          /\ i < j
          /\ AcqTime(asf_results[i]) < AcqTime(asf_results[j])
          /\ asf_results[j] = sel.closest_scene
          /\ asf_results[i] /= sel.closest_scene

\* C4: the closest pick is a record whose absolute day-difference to
\* target = now - days_back days is at most that of every other record with
\* a parseable acquisition time.
C4_ClosestIsArgmin ==
    SelectorReturned =>
        \E i \in ParsedPositions :
            /\ asf_results[i] = sel.closest_scene
            /\ \A j \in ParsedPositions :
                  DayDiffToTarget(asf_results[i]) <= DayDiffToTarget(asf_results[j])

\* C4 witness: the closest pick is not the most recent record and is strictly
\* closer to the target than it and than a third record.
C4_Witness ==
    /\ SelectorReturned
    /\ sel.closest_scene /= sel.most_recent
    /\ DayDiffToTarget(sel.closest_scene) < DayDiffToTarget(sel.most_recent)
    /\ \E j \in ParsedPositions :
          /\ asf_results[j] /= sel.most_recent
          /\ DayDiffToTarget(sel.closest_scene) < DayDiffToTarget(asf_results[j])

\* C6: a record whose acquisition time failed to parse is never part of the
\* result; an empty input, or one without any parseable time, gives an empty
\* result.
C6_UnparsedNeverSelected ==
    sel.outcome /= "pending" =>
        /\ \A k \in 1..Len(sel.selected_scenes) :
              sel.selected_scenes[k].acquisition_date.kind \notin {"noT", "badT"}
        /\ ParsedPositions = {} => (sel.outcome = "returned" /\ sel.selected_scenes = <<>>)

\* C6 witness: a call on three records of which only the middle one parsed;
\* it alone is returned.
C6_Witness ==
    /\ sel.outcome = "returned"
    /\ Len(asf_results) = 3
    /\ ParsedPositions = {2}
    /\ sel.selected_scenes = <<asf_results[2]>>
    /\ asf_results[1].acquisition_date.kind = "noT"
    /\ asf_results[3].acquisition_date.kind = "badT"

\* C6, second case: a call on records none of which parsed returns nothing.
C6_WitnessNoneParsed ==
    /\ sel.outcome = "returned"
    /\ Len(asf_results) = 2
    /\ ParsedPositions = {}
    /\ sel.selected_scenes = <<>>

\* The records of the examples: A one day, B eight days, C thirty days
\* before the clock value of the call.
ExampleRecords ==
    /\ Len(asf_results) = 3
    /\ asf_results[1] = [granule_name |-> "A",
                         acquisition_date |-> [kind |-> "utc", t |-> current_time - 1 * TicksPerDay]]
    /\ asf_results[2] = [granule_name |-> "B",
                         acquisition_date |-> [kind |-> "utc", t |-> current_time - 8 * TicksPerDay]]
    /\ asf_results[3] = [granule_name |-> "C",
                         acquisition_date |-> [kind |-> "utc", t |-> current_time - 30 * TicksPerDay]]

\* C7: for records A (now-1d), B (now-8d), C (now-30d) in that order and
\* days_back = 7 the selector returns exactly [A, B]: the most recent is A,
\* the closest to the target is B.
C7_ExampleSevenDays ==
    (sel.outcome /= "pending" /\ ExampleRecords /\ days_back = 7) =>
        /\ sel.outcome = "returned"
        /\ sel.most_recent = asf_results[1]
        /\ sel.closest_scene = asf_results[2]
        /\ sel.selected_scenes = <<asf_results[1], asf_results[2]>>

C7_Witness ==
    /\ sel.outcome = "returned"
    /\ ExampleRecords
    /\ days_back = 7
    /\ DayDiffToTarget(asf_results[2]) = 1
    /\ DayDiffToTarget(asf_results[3]) = 23

\* C8: for the same records and days_back = 1 the closest pick is A itself
\* and the selector returns the single-element result [A].
C8_ExampleOneDay ==
    (sel.outcome /= "pending" /\ ExampleRecords /\ days_back = 1) =>
        /\ sel.outcome = "returned"
        /\ sel.closest_scene = asf_results[1]
        /\ sel.selected_scenes = <<asf_results[1]>>

C8_Witness ==
    /\ sel.outcome = "returned"
    /\ ExampleRecords
    /\ days_back = 1
    /\ Len(sel.selected_scenes) = 1

---------------------------------------------------------------------------
(* Properties of the per-scene acquisition.                                *)

\* Helpers of the properties: an invocation has happened on a scene record
\* that has its 'url' key; the scene's granule name.
Invoked == call.outcome /= "none" /\ call.scene.has_url
CallName == call.scene.granule_name

\* C9: when safe_dir/<granule_name>.SAFE already exists, every invocation of
\* download_scene_with_progress performs no network transfer and no
\* extraction, changes nothing on disk and returns that path.
C9_ExistingProductShortCircuits ==
    (Invoked /\ call.safe_before[CallName].exists) =>
        /\ call.outcome = "returned"
        /\ call.ret = CallName
        /\ call.transfers = 0
        /\ call.extractions = 0
        /\ raw_dir = call.raw_before
        /\ safe_dir = call.safe_before

\* C9 witness: a repeated invocation.  The product directory it finds was left
\* by an earlier invocation of this run (an extraction that stopped at a
\* damaged member), the archive is on disk too, and the path is returned.
C9_Witness ==
    /\ Invoked
    /\ call.safe_before[CallName] = ExtractedBeforeFailure(CompleteTree)
    /\ call.raw_before[CallName].exists
    /\ call.ret = CallName
    /\ call.transfers = 0
    /\ call.extractions = 0

\* C10: when the product directory does not exist but raw_dir/<granule>.zip
\* does, the invocation performs no network transfer and hands that archive
\* to extraction and verification: the archive file is untouched, and when it
\* extracts completely its tree is at the archive's product root, it has been
\* verified, and the path is returned exactly when verification accepts it.
C10_ExistingArchiveSkipsTransfer ==
    (Invoked /\ ~call.safe_before[CallName].exists /\ call.raw_before[CallName].exists) =>
        LET archive == call.raw_before[CallName]
        IN  /\ call.outcome = "returned"
            /\ call.transfers = 0
            /\ call.extractions = 1
            /\ raw_dir = call.raw_before
            /\ (archive.readable /\ archive.root /= NoRoot /\ ~archive.bad_member) =>
                  /\ call.verified
                  /\ safe_dir = [call.safe_before EXCEPT ![archive.root] = archive.tree]
                  /\ call.ret = (IF verify_safe_comprehensive(archive.tree)
                                 THEN archive.root ELSE None)
            /\ ~(archive.readable /\ archive.root /= NoRoot /\ ~archive.bad_member) =>
                  /\ ~call.verified
                  /\ call.ret = None

\* C10 witness: the archive of the scene is on disk, the product directory
\* is not; the archive is extracted and verified without a transfer.
C10_Witness ==
    /\ Invoked
    /\ ~call.safe_before[CallName].exists
    /\ call.raw_before[CallName] =
          [exists |-> TRUE, root |-> CallName, tree |-> CompleteTree,
           readable |-> TRUE, bad_member |-> FALSE]
    /\ call.transfers = 0
    /\ call.extractions = 1
    /\ call.verified
    /\ call.ret = CallName
    /\ safe_dir[CallName] = CompleteTree


\* The archive that the invocation extracted: the file at zip_path.
ExtractedArchive == raw_dir[CallName]
Extracted == Invoked /\ call.extractions = 1

\* C11: when the network transfer fails (it raises, with or without a partial
\* file, or it returns without the archive at zip_path), the invocation
\* returns None without attempting extraction, and the product directories
\* are as before; no invocation asks the network more than once.
C11_FailedTransferNoExtraction ==
    Invoked =>
      /\ call.transfers <= 1
      /\ call.transfer \in {"raised", "raised_partial", "saved_elsewhere"} =>
           /\ call.transfers = 1
           /\ call.ret = None
           /\ call.extractions = 0
           /\ ~call.verified
           /\ safe_dir = call.safe_before

\* C11's case: the transfer raised and left a partial file at zip_path.
C11_Witness ==
    /\ Invoked
    /\ call.transfer = "raised_partial"
    /\ raw_dir[CallName] = Unreadable
    /\ call.ret = None

\* C12: an invocation never deletes or modifies an archive: every archive
\* that was on disk before is on disk unchanged afterwards, and an archive
\* the invocation saved is on disk afterwards, whether the invocation ended
\* in success, in an extraction failure or in a verification failure.
C12_ArchiveNeverDeleted ==
    Invoked =>
      \A n \in Names :
        /\ call.raw_before[n].exists => raw_dir[n] = call.raw_before[n]
        /\ (n = CallName /\ call.transfer = "saved") => raw_dir[n].exists
        /\ n /= CallName => raw_dir[n] = call.raw_before[n]

\* C12's case: the archive was downloaded, extracted and verified, and it is
\* still there.
C12_Witness ==
    /\ Invoked
    /\ call.transfer = "saved"
    /\ call.ret /= None
    /\ raw_dir[CallName].exists
    /\ raw_dir[CallName].tree = CompleteTree

\* C14: when the extracted product fails verification, the invocation
\* returns None and the extracted directory stays on disk with exactly the
\* archive's content; the other product directories are as before.
C14_VerificationFailureKeepsDirectory ==
    (Extracted /\ call.verified /\ VerifyOutcome(ExtractedArchive.tree) /= "accept") =>
      /\ call.ret = None
      /\ safe_dir[ExtractedArchive.root].exists
      /\ safe_dir[ExtractedArchive.root] = ExtractedArchive.tree
      /\ \A n \in Names \ {ExtractedArchive.root} : safe_dir[n] = call.safe_before[n]

\* C14's case: an archive without manifest.safe was extracted and rejected.
C14_Witness ==
    /\ Extracted
    /\ call.verified
    /\ call.ret = None
    /\ ExtractedArchive.tree = NoManifestTree
    /\ safe_dir[ExtractedArchive.root] = NoManifestTree

\* C15: when the archive is a readable zip without an entry ending in
\* '.SAFE/', extraction returns None and safe_extracted/ is as before.
C15_RootlessArchiveLeavesDestination ==
    (Extracted /\ ExtractedArchive.readable /\ ExtractedArchive.root = NoRoot) =>
      /\ call.ret = None
      /\ ~call.verified
      /\ safe_dir = call.safe_before

\* C15's case: a rootless archive was opened while another product directory
\* was on disk.
C15_Witness ==
    /\ Extracted
    /\ ExtractedArchive = RootlessArchive
    /\ \E n \in Names : safe_dir[n] = CompleteTree

\* C16: when a directory of the product's name is on disk as extraction
\* starts, the directory afterwards has only entries of the archive: nothing
\* of the earlier directory is left.
C16_ExistingDirectoryReplaced ==
    (/\ Extracted
     /\ ExtractedArchive.readable
     /\ ExtractedArchive.root /= NoRoot
     /\ call.safe_before[ExtractedArchive.root].exists) =>
      LET after == safe_dir[ExtractedArchive.root]
          tree == ExtractedArchive.tree
      IN  /\ after.exists
          /\ after.dirs \subseteq tree.dirs
          /\ after.plain \subseteq tree.plain
          /\ after.tiffs \subseteq tree.tiffs
          /\ after.manifest => tree.manifest
          /\ ~ExtractedArchive.bad_member => after = tree

\* C16's case: an archive with an empty product was extracted over a
\* complete directory of the same name.
C16_Witness ==
    /\ Extracted
    /\ ExtractedArchive.readable
    /\ ExtractedArchive.root /= NoRoot
    /\ call.safe_before[ExtractedArchive.root] = CompleteTree
    /\ ExtractedArchive.tree = EmptyTree
    /\ safe_dir[ExtractedArchive.root] = EmptyTree


---------------------------------------------------------------------------
(* Properties of the verification.                                         *)

Verified == verification.outcome /= "pending"

\* The four things a product directory must have, and a measurement file
\* whose lower-cased name contains one of the four tags.
HasAllFour(t) == RequiredDirs \subseteq t.dirs /\ t.manifest
HasTaggedFile(t) ==
    \E f \in t.tiffs : SubstringsOf(f) \cap {"vv", "vh", "hh", "hv"} /= {}

\* C13: verification returns False for every product directory that lacks
\* the annotation, measurement or preview subdirectory or manifest.safe, and
\* True for every one that has all four and a measurement *.tiff file whose
\* name carries VV, VH, HH or HV.
C13_VerifyRejectsIncompleteAcceptsTagged ==
    Verified =>
      /\ ~HasAllFour(verification.before) => verification.ret = FALSE
      /\ (HasAllFour(verification.before) /\ HasTaggedFile(verification.before)) =>
           verification.ret = TRUE

\* C13's case: a directory with the three subdirectories and a tagged
\* measurement file, without manifest.safe, was rejected.
C13_Witness ==
    /\ Verified
    /\ verification.before.dirs = RequiredDirs
    /\ HasTaggedFile(verification.before)
    /\ ~verification.before.manifest
    /\ verification.ret = FALSE

\* C17: verification leaves the product directory as it found it, whether it
\* accepts, rejects or ends in an internal error.
C17_VerifyReadOnly ==
    Verified =>
      /\ product = verification.before
      /\ verification.outcome \in {"accept", "reject", "error"}

\* C17's case: verification ended in an internal error (a required name is a
\* plain file) on a directory that has files.
C17_Witness ==
    /\ Verified
    /\ verification.outcome = "error"
    /\ product.exists
    /\ product.manifest
    /\ product.tiffs /= {}


---------------------------------------------------------------------------
(* Properties of the scheduler loop.                                       *)

\* C18: the loop ends only by cancellation, never because a run raised, and
\* after every finished run, returned or raised, another run is started
\* unless the loop is cancelled first.
C18_LoopSurvivesFailedRuns ==
    /\ [](sched.pc = "stopped" => sched.cancelled)
    /\ []((sched.last.outcome /= "none" /\ sched.pc /= "running")
            => <>(sched.pc = "running" \/ sched.cancelled))

\* C18's case: a run was started after a run that raised.
C18_Witness ==
    /\ sched.pc = "running"
    /\ sched.last.outcome = "raised"
    /\ sched.runs >= 2
    /\ ~sched.cancelled

\* C19: when a run starts after an earlier one, exactly one wait lies between
\* them: interval_hours after a run that returned, the fixed hour after a run
\* that raised.
C19_OneSleepBetweenRuns ==
    (sched.pc \in {"idle", "running"} /\ sched.last.outcome /= "none") =>
      /\ sched.last.outcome = "returned" =>
           sched.gap = <<sched.interval_hours * 3600>>
      /\ sched.last.outcome = "raised" => sched.gap = <<3600>>

\* C19's case: with a 24-hour interval, a run starts an hour after a run that
\* raised.
C19_Witness ==
    /\ sched.pc = "running"
    /\ sched.interval_hours = 24
    /\ sched.last.outcome = "raised"
    /\ sched.gap = <<3600>>

---------------------------------------------------------------------------
(* Properties of a pipeline run.                                           *)

\* The run has passed the selection of line 402.
PastSelection == sel.outcome /= "pending"

\* The run was not cancelled.
NotCancelled == run.pc /= "cancelled"

C21_SearchFailureIsEmptyResult ==
    run.search = "raised" =>
      /\ run.raised_at \notin {"search_asf", "select"}
      /\ asf_results = <<>>
      /\ run.started = <<>>
      /\ PastSelection => sel = SelEmpty
      /\ run.pc = "returned" => run.summary_file = "written"
      /\ run.summary_file = "written" =>
           /\ run.summary.written
           /\ run.summary.found = 0
           /\ run.summary.selected = 0

\* C21's case: the search raised and the run's summary is written.
C21_Witness ==
    /\ run.search = "raised"
    /\ run.pc = "returned"
    /\ run.summary.written
    /\ run.summary.found = 0

\* C22: when asf.search returns, data_list has one record per result, in the
\* results' order: the result's name and date for a result that normalizes,
\* the 'parsing_error' record with its error note for one that does not.
C22_OneRecordPerResult ==
    run.search = "returned" =>
      /\ Len(asf_results) = Len(run.raw_results)
      /\ \A i \in 1..Len(run.raw_results) :
           IF run.raw_results[i].bytes_numeric
           THEN /\ DOMAIN asf_results[i] = {"granule_name", "acquisition_date"}
                /\ asf_results[i].granule_name = run.raw_results[i].sceneName
                /\ asf_results[i].acquisition_date = run.raw_results[i].startTime
           ELSE /\ asf_results[i].granule_name = "parsing_error"
                /\ asf_results[i].error

\* C22's case: the first of two results does not normalize, the second does.
C22_Witness ==
    /\ run.search = "returned"
    /\ Len(run.raw_results) = 2
    /\ ~run.raw_results[1].bytes_numeric
    /\ run.raw_results[2].bytes_numeric
    /\ asf_results[1] = ParsingError
    /\ asf_results[2].granule_name = run.raw_results[2].sceneName

\* The prefixes of a sequence.
IsPrefix(s, t) == Len(s) <= Len(t) /\ SubSeq(t, 1, Len(s)) = s

\* C23: the search comes before the selection, the selection before every
\* download, the downloads are started one at a time in the order of the
\* selection, each after the one before it has returned, and the summary is
\* written after the download of every selected scene has returned.
C23_StepsInOrder ==
    /\ run.pc \in {"search_asf", "search_sh", "select"} =>
         /\ sel.outcome = "pending"
         /\ run.started = <<>>
         /\ run.summary_file = "none"
    /\ run.pc \in {"select", "download_asf", "download_sh", "summary", "returned"} =>
         run.search /= "none"
    /\ run.started /= <<>> => sel.outcome = "returned"
    /\ Cardinality(run.in_progress) <= 1
    /\ IsPrefix(run.started, GranuleNamesOf(sel.selected_scenes))
    /\ Len(run.started) = Len(run.asf_downloads) + Cardinality(run.in_progress)
    /\ run.in_progress /= {} => run.in_progress = {Len(run.started)}
    /\ (run.pc = "summary" \/ run.summary_file /= "none") =>
         /\ run.in_progress = {}
         /\ Len(run.asf_downloads) = Len(sel.selected_scenes)
         /\ run.started = GranuleNamesOf(sel.selected_scenes)

\* C23's case: of two selected scenes the first download has returned and
\* the second is in progress.
C23_Witness ==
    /\ Len(sel.selected_scenes) = 2
    /\ Len(run.asf_downloads) = 1
    /\ run.in_progress = {2}
    /\ run.io.stage = "write"
    /\ run.summary_file = "none"

\* C28: for every selected scene whose download_asf_data has returned True,
\* <granule>.json is in data/asf.
C28_SnapshotForEverySelected ==
    \A i \in 1..Len(run.asf_downloads) :
      run.asf_downloads[i] => sel.selected_scenes[i].granule_name \in run.jsons

---------------------------------------------------------------------------
(* Properties of the download tool.                                        *)

\* The tool's loop has run: it was asked to download and authenticated.
LoopEntered == ~cli.check_auth /\ cli.authenticated = "yes"

\* Neither a token nor a complete login is configured.
MissingLogin ==
    /\ ~cli.credentials.edl_token
    /\ ~(cli.credentials.username /\ cli.credentials.password)

\* C24: an error in the acquisition of one scene never aborts the run: when
\* the tool has ended without the user interrupting it, every scene of its
\* list was attempted, each has its result recorded, and the tool completed.
C24_ErrorNeverAbortsTheRun ==
    (cli.pc = "exited" /\ LoopEntered /\ cli.interrupted_at = "none") =>
        /\ cli.attempted = Len(cli.metadata_files)
        /\ Len(cli.results) = Len(cli.metadata_files)
        /\ cli.message = "completed"

\* What holds of C24: when every scene record has its 'url', a failed
\* transfer, extraction or verification is recorded as failed and the
\* remaining scenes are attempted.
C24_HoldsForCompleteRecords ==
    (cli.pc = "exited" /\ LoopEntered /\ cli.interrupted_at = "none"
       /\ \A i \in 1..Len(cli.metadata_files) : cli.metadata_files[i].has_url) =>
        /\ cli.attempted = Len(cli.metadata_files)
        /\ Len(cli.results) = Len(cli.metadata_files)
        /\ cli.message = "completed"

\* C25: unless authentication succeeded, no scene acquisition is invoked:
\* no scene is attempted, nothing is transferred, no result is recorded.
C25_NoAcquisitionWithoutAuthentication ==
    cli.authenticated /= "yes" =>
        /\ cli.attempted = 0
        /\ cli.transfers = 0
        /\ cli.results = <<>>
        /\ call = NoCall
        /\ raw_dir = [n \in Names |-> NoFile]
        /\ safe_dir = [n \in Names |-> NoDir]

\* The session refused the configured credentials, with scenes waiting.
C25_Witness ==
    /\ cli.pc = "exited"
    /\ ~cli.check_auth
    /\ cli.authenticated = "no"
    /\ cli.auth_requests = 1
    /\ Len(cli.metadata_files) = MaxFiles

\* C26: a tool that ends on an authentication failure exits with a status
\* other than the 0 of a completed run.
C26_AuthFailureExitsNonZero ==
    (cli.pc = "exited" /\ cli.message = "auth_failed") => cli.exit_status /= 0

\* C27: without a token and without a complete login, the missing
\* credentials are reported at construction, no authentication request is
\* ever made, nothing is transferred, and the tool does not proceed to its
\* scenes: it is never authenticated, never enters the loop, attempts no
\* scene and records no result, and it never ends as a completed download,
\* whether or not the user interrupts it; left to itself, a tool with scenes
\* to download ends on the authentication failure.
C27_MissingCredentialsStopBeforeNetwork ==
    MissingLogin =>
        /\ cli.config_error_reported
        /\ cli.auth_requests = 0
        /\ cli.auth_method = "none"
        /\ cli.transfers = 0
        /\ cli.attempted = 0
        /\ cli.results = <<>>
        /\ call = NoCall
        /\ cli.authenticated /= "yes"
        /\ cli.pc /= "loop"
        /\ cli.message \notin {"completed", "download_error", "auth_ok"}
        /\ (cli.pc = "exited" /\ ~cli.check_auth /\ cli.files /= <<>>)
              => cli.message \in {"auth_failed", "interrupted"}
        /\ (cli.pc = "exited" /\ ~cli.check_auth /\ cli.files /= <<>>
              /\ cli.interrupted_at = "none")
              => (cli.authenticated = "no" /\ cli.message = "auth_failed")

\* A username without its password, with scenes waiting: the tool has ended.
C27_Witness ==
    /\ cli.pc = "exited"
    /\ MissingLogin
    /\ cli.credentials.username
    /\ ~cli.check_auth
    /\ Len(cli.metadata_files) = MaxFiles
    /\ cli.message = "auth_failed"

---------------------------------------------------------------------------
(* Success of an acquisition and verification.                             *)

\* C30: whenever an acquisition reports success, the product directory it
\* returns passes verification at that moment.
C30_SuccessIsVerifiedNow ==
    (Invoked /\ call.outcome = "returned" /\ call.ret /= None) =>
        verify_safe_comprehensive(safe_dir[call.ret])

\* What holds of C30: a success passes verification when the product
\* directory was not on disk before the invocation.
C30_HoldsWithoutEarlierDirectory ==
    (Invoked /\ call.outcome = "returned" /\ call.ret /= None
       /\ ~call.safe_before[call.scene.granule_name].exists) =>
        verify_safe_comprehensive(safe_dir[call.ret])

---------------------------------------------------------------------------
(* Properties of an aborted acquisition invoked again.                     *)

\* C29: an acquisition that was aborted at any point and is invoked again
\* after the restart ends in the outcome of the uninterrupted acquisition:
\* the same returned path and the same product directories.
C29_ResumedOutcomeIsUninterruptedOutcome ==
    resume.phase = "resumed" =>
        /\ call.ret = resume.reference.ret
        /\ safe_dir = resume.reference.safe

\* What holds of C29: the outcome is the uninterrupted one when the abort
\* fell between the stages, before the transfer or after it.
C29_HoldsBetweenStages ==
    (resume.phase = "resumed" /\ resume.at \in {"unchanged", "after_transfer"}) =>
        /\ call.ret = resume.reference.ret
        /\ safe_dir = resume.reference.safe

---------------------------------------------------------------------------
(* The selector on unusable acquisition times.                             *)

\* C31: the scene selector never fails: whatever the records, a call ends by
\* returning, and what it returns is computed over the records whose
\* acquisition time is usable.
C31_SelectorNeverFails ==
    sel.outcome /= "pending" =>
        /\ sel.outcome = "returned"
        /\ \A k \in 1..Len(sel.selected_scenes) :
              \E i \in ParsedPositions : asf_results[i] = sel.selected_scenes[k]

\* What holds of C31: a record whose time is absent or malformed is skipped
\* and the call returns, when no record's time carries a UTC offset.
C31_HoldsForAbsentAndMalformed ==
    (sel.outcome /= "pending"
       /\ \A i \in 1..Len(asf_results) : asf_results[i].acquisition_date.kind /= "offset") =>
        /\ sel.outcome = "returned"
        /\ \A k \in 1..Len(sel.selected_scenes) :
              \E i \in ParsedPositions : asf_results[i] = sel.selected_scenes[k]

---------------------------------------------------------------------------
(* The product path of a successful extraction.                            *)

\* The acquisition of the last invocation's scene, invoked again at once on
\* the disk as it is now.
RepeatedCall ==
    download_scene_with_progress(
        call.scene, [kind |-> "raised", archive |-> Unreadable], raw_dir, safe_dir).call

\* The last invocation extracted an archive and returned a product path.
SucceededAfterExtraction ==
    Invoked /\ call.outcome = "returned" /\ call.extractions = 1 /\ call.ret /= None

\* C32: when an acquisition succeeds after an extraction, the path it returns
\* is that of the scene's granule name, and the same acquisition invoked
\* again at once makes no transfer and no extraction.
C32_SuccessPathIsShortCircuitPath ==
    SucceededAfterExtraction =>
        /\ call.ret = call.scene.granule_name
        /\ RepeatedCall.transfers = 0
        /\ RepeatedCall.extractions = 0

\* What holds of C32: the statement, when the product directory of the
\* extracted archive is named after the scene's granule.
C32_HoldsWhenArchiveNamesTheGranule ==
    (SucceededAfterExtraction /\ ExtractedArchive.root = call.scene.granule_name) =>
        /\ call.ret = call.scene.granule_name
        /\ RepeatedCall.transfers = 0
        /\ RepeatedCall.extractions = 0
        /\ RepeatedCall.ret = call.ret

---------------------------------------------------------------------------
(* Invocations after the archive of a scene is on disk.                    *)

\* The last invocation found the archive of its scene and no product
\* directory, and failed.
FailedOnExistingArchive ==
    /\ Invoked
    /\ call.raw_before[CallName].exists
    /\ ~call.safe_before[CallName].exists
    /\ call.outcome = "returned"
    /\ call.ret = None

\* C33: once the archive of a scene is on disk without its product
\* directory, an invocation that failed on it is followed, for the same
\* scene, by invocations that make no transfer and fail again.
C33_FailingArchiveKeepsFailing ==
    [][(FailedOnExistingArchive /\ call'.scene = call.scene) =>
          (call'.transfers = 0 /\ call'.ret = None)]_vars

\* What holds of C33: an archive on disk stays as it is, and an invocation
\* for a scene whose archive is on disk makes no transfer.
C33_HoldsForTransfers ==
    [][/\ \A n \in Names : raw_dir[n].exists => raw_dir'[n] = raw_dir[n]
       /\ raw_dir[call'.scene.granule_name].exists => call'.transfers = 0]_vars

---------------------------------------------------------------------------
(* The run summary.                                                        *)

\* C34: every summary written by a run has 0 <= downloaded <= selected <= 2
\* and selected <= found, lists the granule names of the selected scenes, as
\* many as 'selected' and in the order of the selection, and has total_files
\* equal to downloaded plus the Sentinel Hub items processed.
C34_SummaryCountsAgree ==
    run.summary.written =>
        /\ 0 <= run.summary.downloaded
        /\ run.summary.downloaded <= run.summary.selected
        /\ run.summary.selected <= 2
        /\ run.summary.selected <= run.summary.found
        /\ Len(run.summary.selected_scenes) = run.summary.selected
        /\ \A i \in 1..Len(sel.selected_scenes) :
              run.summary.selected_scenes[i] = sel.selected_scenes[i].granule_name
        /\ Len(sel.selected_scenes) = run.summary.selected
        /\ run.summary.total_files = run.summary.downloaded + run.summary.sh_processed

\* C34's case: three scenes found, two of them selected, one of the two
\* downloads failed, and a Sentinel Hub item was found; the summary is
\* written.
C34_Witness ==
    /\ run.pc = "returned"
    /\ run.summary.written
    /\ run.summary.found = 3
    /\ run.summary.selected = 2
    /\ run.summary.downloaded = 1
    /\ run.summary.sh_found = 1
    /\ run.asf_downloads = <<FALSE, TRUE>>

---------------------------------------------------------------------------
(* Properties of the polarization-to-file query.                           *)

Queried == "measurement_files" \in DOMAIN verification

\* The spelling of a tag in a lower-cased file name.
LowerCased(tag) ==
    CASE tag = "VV" -> "vv" [] tag = "VH" -> "vh" [] tag = "HH" -> "hh" [] tag = "HV" -> "hv"

\* C35: for every product directory the keys of get_measurement_files are
\* the tags verification recognizes among the measurement files, each key
\* maps to one measurement file of the directory whose lower-cased name
\* contains the tag, and a directory with the three subdirectories and the
\* manifest passes verification exactly when the mapping is not empty.
C35_QueryAgreesWithVerification ==
    Queried =>
        LET m == verification.measurement_files
        IN  /\ DOMAIN m = Polarizations(product)
            /\ \A tag \in DOMAIN m :
                  /\ m[tag] \in product.tiffs
                  /\ LowerCased(tag) \in SubstringsOf(m[tag])
            /\ HasAllFour(product) => (verification.ret <=> DOMAIN m /= {})

\* C35's case: two files carry 'vv', one of them 'vh' too, listed after the
\* other; the mapping has the key VV alone, for the file listed last, and
\* the complete directory passed verification.
C35_Witness ==
    /\ Queried
    /\ HasAllFour(product)
    /\ product.tiffs = {"s1a-iw-slc-vv-001.tiff", "s1a-iw-slc-vv-vh-006.tiff", "s1a-iw-slc-003.tiff"}
    /\ DOMAIN verification.measurement_files = {"VV"}
    /\ verification.measurement_files["VV"] = "s1a-iw-slc-vv-vh-006.tiff"
    /\ verification.ret = TRUE

---------------------------------------------------------------------------
(* Properties of authenticate.                                             *)

AuthenticateCalled == cli.authenticated /= "not_asked"

\* C36 as stated: authenticate uses the token whenever one is set, and the
\* username and password only when no token is set; when the session does
\* not accept the token it returns False after that one request, without
\* trying the username and password; and it never raises.
C36_TokenFirstNeverRaises ==
    AuthenticateCalled =>
        /\ cli.auth_outcome = "returned"
        /\ cli.credentials.edl_token =>
              /\ cli.auth_method = "token"
              /\ cli.auth_requests = 1
              /\ cli.authenticated = AuthState(cli.session.token = "accepts")
        /\ cli.auth_method = "login" =>
              /\ ~cli.credentials.edl_token
              /\ cli.credentials.username /\ cli.credentials.password
              /\ cli.auth_requests = 1
              /\ cli.authenticated = AuthState(cli.session.login = "accepts")
        /\ (~cli.credentials.edl_token /\ cli.credentials.username /\ cli.credentials.password)
              => cli.auth_method = "login"

\* C36: authenticate makes at most one request, with the token whenever one
\* is set and with the username and password only when no token is set.
\* Whatever the session answers it returns: True when the session accepts,
\* False when it raises, after that one request and without trying the
\* username and password after a token.  The one exception that leaves it is
\* the KeyboardInterrupt of a user who stops the tool during the call.
C36_TokenFirstNoFallback ==
    AuthenticateCalled =>
        /\ cli.auth_outcome \in {"returned", "raised"}
        /\ cli.auth_outcome = "raised" =>
              (cli.interrupted_at = "authenticate" /\ cli.authenticated = "raised")
        /\ cli.auth_requests <= 1
        /\ cli.auth_requests = 1 <=> cli.auth_method \in {"token", "login"}
        /\ cli.auth_method = "token" => cli.credentials.edl_token
        /\ cli.auth_method = "login" =>
              /\ ~cli.credentials.edl_token
              /\ cli.credentials.username /\ cli.credentials.password
        /\ cli.auth_outcome = "returned" =>
              /\ cli.credentials.edl_token =>
                    /\ cli.auth_method = "token"
                    /\ cli.authenticated = AuthState(cli.session.token = "accepts")
              /\ (~cli.credentials.edl_token
                    /\ cli.credentials.username /\ cli.credentials.password) =>
                    /\ cli.auth_method = "login"
                    /\ cli.authenticated = AuthState(cli.session.login = "accepts")
              /\ MissingLogin =>
                    (cli.auth_method = "none" /\ cli.authenticated = "no")

\* C36's case: token, username and password are all set, the session raises
\* on the token and would accept the login; authenticate returned False.
C36_Witness ==
    /\ AuthenticateCalled
    /\ cli.credentials = [edl_token |-> TRUE, username |-> TRUE, password |-> TRUE]
    /\ cli.session = [token |-> "fails", login |-> "accepts"]
    /\ cli.auth_method = "token"
    /\ cli.authenticated = "no"
    /\ cli.pc = "exited"
    /\ cli.message = "auth_failed"

===========================================================================
